---- MODULE Spec2Model ----
(***************************************************************************)
(* InfiniteMemoryMCP: the request dispatcher with its circuit breaker      *)
(* (mcp/mcp_server.py), the embedding service with its cache, queue and    *)
(* worker (embedding/embedding_service.py) and the memory repository with  *)
(* its vector index (core/memory_repository.py).                           *)
(*                                                                         *)
(* Time is counted in whole seconds (time.time()).  Document ids are the   *)
(* strings the repository hands out (core/models.py: ObjectId = str); the  *)
(* store hands out a fresh one on every insert.                            *)
(***************************************************************************)
EXTENDS Integers, Sequences, FiniteSets, TLC

(* ------------------------------ bounds -------------------------------- *)
MaxTime == 7          \* the clock stops advancing here
MaxThreshold == 2     \* failure_threshold is drawn from 1..MaxThreshold
MaxTimeout == 2       \* reset_timeout is drawn from 1..MaxTimeout
MaxFailures == 2      \* direct record_failure calls stop here
MaxRequests == 4      \* requests read by the dispatcher
MaxCalls == 2         \* calls the session makes to the repository
MaxThreads == 1       \* worker threads that exist at one time
MaxCacheSize == 1     \* embedding.cache_size is drawn from 1..MaxCacheSize
MaxTexts == 2         \* distinct non-empty texts a direct caller asks for
MaxGenerations == 3   \* calls of a direct caller in the longer sessions
MaxCommands == 2      \* commands of a client that write to the store

(* -------------------------- program constants ------------------------- *)
DefaultFailureThreshold == 3
DefaultResetTimeout == 60
max_retry_attempts == 3
retry_delay == 1
\* MemoryService, and the thresholds and top_k it searches with, in hundredths
default_scope == "Global"
SimilarityThreshold == 30
SearchThreshold == 10
ScopeSearchTopK == 10
\* the top_k of a retrieve_memory request that carries none
DefaultTopK == 5

None == "None"
\* a memory_id or conversation_id a request does not carry, or carries empty
NoId == 0
\* a message of a batch that carries no timestamp
NoTimestamp == 0 - 1

\* every action name a request may carry; "u" has no handler
AllActions == {"a", "b", "u"}
\* the actions with a registered handler
command_handlers == {"a", "b"}
\* messages of the exceptions a handler may raise
Errors == {"e1", "e2"}
\* responses a handler may return without raising
HandlerResponses == {"OK", "ERROR"}
\* request lines: not JSON, JSON that is no object, an object without
\* action, or an object naming an action
Requests == {"malformed", "not_object", "no_action"} \cup AllActions

\* texts of memories; the empty text takes its own path in the embedding service
Texts == {"", "a"}
Scopes == {"s1", "s2"}
\* the ids the store can hand out: one to a document stored by an earlier
\* session, one for every call of this session
Ids == 1..(MaxCalls + 1)
ThreadIds == 1..MaxThreads
\* the texts direct callers of the embedding service ask for
Alphabet == <<"a", "b", "c", "d">>
ServiceTexts == {""} \cup {Alphabet[i] : i \in 1..MaxTexts}

\* the vector the model computes for a text, and [0.0] * embedding_size
Encode(t) == <<"vec", t>>
ZeroVector == <<"zero", "">>

VARIABLES
    now,                \* time.time()
    \* CircuitBreaker
    failure_threshold, reset_timeout,
    failure_count, circuit_open, last_failure_time,
    \* MCPServer
    request_count, error_count, health_status, last_error,
    pc,                 \* "idle": between requests; "exec": in _execute_with_retry
    action,             \* process_request's local: the action of the request
    attempts,           \* _execute_with_retry's local
    err,                \* _execute_with_retry's local last_error
    response,           \* the response process_request returned last
    \* EmbeddingService
    stamp,              \* time.time() as request ids embed it: only equality of
                        \* readings matters, so readings are numbered and a number
                        \* no live request id carries is used again
    async_enabled,
    cache_size,         \* embedding.cache_size as read at construction
    embedding_cache,    \* the dict in insertion order: <<[text, vec], ...>>
    embedding_queue,    \* <<[text, request_id], ...>>
    embedding_callbacks,\* request_id -> <<callback record, ...>>
    running,
    worker_thread,      \* 0 for None, else the id of the thread
    threads,            \* every worker thread: dead, idle (in queue.get) or busy with an item
    delivered,          \* the invocations of the callbacks of direct callers, in order
    last_call,          \* the last generate_embedding call: its text, what it returned,
                        \* whether it went to the model
    \* MemoryRepository and the store
    conversation_history,   \* _id -> [text, scope, tags, timestamp, conversation_id]
    next_id,                \* the next _id the store hands out
    memory_index,           \* <<[source_id, embedding, scope], ...>>
    pending_operations,     \* source_id -> None or the tracked operation
    error_log,              \* source ids of the errors the embedding callbacks logged
    calls_made,             \* the calls the session has made to the repository
    summaries,              \* _id -> [summary_text, scope]
    metadata_scopes,        \* the scope_name of the documents of the metadata_scopes collection
    auto_create_scope,      \* memory.auto_create_scope of the configuration
    result                  \* what the command handler called last returned

breakerVars == <<failure_threshold, reset_timeout, failure_count, circuit_open, last_failure_time>>
serverVars == <<request_count, error_count, health_status, last_error, pc, action, attempts, err, response>>
embeddingVars == <<stamp, async_enabled, cache_size, embedding_cache, embedding_queue, embedding_callbacks, running, worker_thread, threads,
                   delivered, last_call>>
repositoryVars == <<conversation_history, next_id, memory_index, pending_operations, error_log, calls_made,
                    summaries, metadata_scopes, auto_create_scope, result>>
vars == <<now, breakerVars, serverVars, embeddingVars, repositoryVars>>

NoResponse == [status |-> "none", error |-> "", detail |-> "", attempts |-> 0, retry_after |-> -1]
ErrorResponse(e, d, n, r) == [status |-> "error", error |-> e, detail |-> d, attempts |-> n, retry_after |-> r]
HandlerResponse(r) == [status |-> r, error |-> "", detail |-> "", attempts |-> 0, retry_after |-> -1]

(* --------------------------- CircuitBreaker --------------------------- *)
InitBreaker(th, to) ==
    /\ failure_threshold = th
    /\ reset_timeout = to
    /\ failure_count = [c \in AllActions |-> 0]
    /\ circuit_open = [c \in AllActions |-> FALSE]
    /\ last_failure_time = [c \in AllActions |-> 0]

\* variant: the cool-down already counts as over at exactly reset_timeout
TimedOut_inclusive(c) == now - last_failure_time[c] >= reset_timeout

\* the cool-down of command c is over
TimedOut(c) == now - last_failure_time[c] > reset_timeout

\* what is_open(c) returns
is_open_result(c) == circuit_open[c] /\ ~TimedOut(c)

\* variant: the reset closes the circuit but keeps the failure count
is_open_keeps_count(c) ==
    /\ IF circuit_open[c] /\ TimedOut(c)
       THEN circuit_open' = [circuit_open EXCEPT ![c] = FALSE]
       ELSE UNCHANGED circuit_open
    /\ UNCHANGED <<failure_threshold, reset_timeout, failure_count, last_failure_time>>

\* what is_open(c) does to the breaker
is_open(c) ==
    /\ IF circuit_open[c] /\ TimedOut(c)
       THEN /\ circuit_open' = [circuit_open EXCEPT ![c] = FALSE]
            /\ failure_count' = [failure_count EXCEPT ![c] = 0]
       ELSE UNCHANGED <<circuit_open, failure_count>>
    /\ UNCHANGED <<failure_threshold, reset_timeout, last_failure_time>>

\* variant: a success closes the circuit but keeps the failure count
record_success_keeps_count(c) ==
    /\ circuit_open' = [circuit_open EXCEPT ![c] = FALSE]
    /\ UNCHANGED <<failure_threshold, reset_timeout, failure_count, last_failure_time>>

record_success(c) ==
    /\ failure_count' = [failure_count EXCEPT ![c] = 0]
    /\ circuit_open' = [circuit_open EXCEPT ![c] = FALSE]
    /\ UNCHANGED <<failure_threshold, reset_timeout, last_failure_time>>

\* variant: one time stamp of the last failure shared by all commands
record_failure_shared_clock(c) ==
    /\ failure_count' = [failure_count EXCEPT ![c] = @ + 1]
    /\ last_failure_time' = [b \in AllActions |-> now]
    /\ circuit_open' = IF failure_count[c] + 1 >= failure_threshold
                       THEN [circuit_open EXCEPT ![c] = TRUE]
                       ELSE circuit_open
    /\ UNCHANGED <<failure_threshold, reset_timeout>>

\* variant: the circuit opens one failure late
record_failure_late(c) ==
    /\ failure_count' = [failure_count EXCEPT ![c] = @ + 1]
    /\ last_failure_time' = [last_failure_time EXCEPT ![c] = now]
    /\ circuit_open' = IF failure_count[c] + 1 > failure_threshold
                       THEN [circuit_open EXCEPT ![c] = TRUE]
                       ELSE circuit_open
    /\ UNCHANGED <<failure_threshold, reset_timeout>>

record_failure(c) ==
    /\ failure_count' = [failure_count EXCEPT ![c] = @ + 1]
    /\ last_failure_time' = [last_failure_time EXCEPT ![c] = now]
    /\ circuit_open' = IF failure_count[c] + 1 >= failure_threshold
                       THEN [circuit_open EXCEPT ![c] = TRUE]
                       ELSE circuit_open
    /\ UNCHANGED <<failure_threshold, reset_timeout>>

(* ------------------------------ MCPServer ----------------------------- *)
InitServer ==
    /\ request_count = 0
    /\ error_count = 0
    /\ health_status = "ok"
    /\ last_error = None
    /\ pc = "idle"
    /\ action = None
    /\ attempts = 0
    /\ err = None
    /\ response = NoResponse

\* process_request up to the call of _execute_with_retry
process_request(req) ==
    /\ pc = "idle"
    /\ request_count < MaxRequests
    /\ request_count' = request_count + 1
    /\ UNCHANGED <<now, embeddingVars, repositoryVars>>
    /\ CASE req = "malformed" ->
              /\ error_count' = error_count + 1
              /\ response' = ErrorResponse("Invalid JSON in request", "", 0, -1)
              /\ action' = None
              /\ UNCHANGED <<breakerVars, health_status, last_error, pc, attempts, err>>
         [] req = "not_object" ->
              \* request.get raises AttributeError: the catch-all handler
              /\ error_count' = error_count + 1
              /\ health_status' = "degraded"
              /\ last_error' = "AttributeError"
              /\ response' = ErrorResponse("AttributeError", "", 0, -1)
              /\ action' = None
              /\ UNCHANGED <<breakerVars, pc, attempts, err>>
         [] req = "no_action" ->
              /\ error_count' = error_count + 1
              /\ response' = ErrorResponse("Missing 'action' in request", "", 0, -1)
              /\ action' = None
              /\ UNCHANGED <<breakerVars, health_status, last_error, pc, attempts, err>>
         [] req \in AllActions ->
              /\ action' = req
              /\ is_open(req)
              /\ UNCHANGED <<health_status, last_error>>
              /\ IF is_open_result(req)
                 THEN /\ error_count' = error_count + 1
                      /\ response' = ErrorResponse("Service temporarily unavailable for action", req, 0, reset_timeout)
                      /\ pc' = "idle"
                      /\ UNCHANGED <<attempts, err>>
                 ELSE IF req \notin command_handlers
                 THEN /\ error_count' = error_count + 1
                      /\ response' = ErrorResponse("Unknown action", req, 0, -1)
                      /\ pc' = "idle"
                      /\ UNCHANGED <<attempts, err>>
                 ELSE \* _execute_with_retry starts: attempts = 0, last_error = None
                      /\ pc' = "exec"
                      /\ attempts' = 0
                      /\ err' = None
                      /\ UNCHANGED <<error_count, response>>

\* variant: a returned response with an error status counts as a failure
HandlerReturns_error_is_failure(r) ==
    /\ pc = "exec"
    /\ IF r = "OK" THEN record_success(action) ELSE record_failure(action)
    /\ IF r = "OK" /\ health_status = "degraded"
       THEN health_status' = "ok" /\ last_error' = None
       ELSE IF r = "OK"
       THEN UNCHANGED <<health_status, last_error>>
       ELSE health_status' = "degraded" /\ last_error' = r
    /\ response' = HandlerResponse(r)
    /\ pc' = "idle"
    /\ UNCHANGED <<now, request_count, error_count, action, attempts, err, embeddingVars, repositoryVars>>

\* one attempt of _execute_with_retry in which the handler returns r
HandlerReturns(r) ==
    /\ pc = "exec"
    /\ record_success(action)
    /\ IF health_status = "degraded"
       THEN health_status' = "ok" /\ last_error' = None
       ELSE UNCHANGED <<health_status, last_error>>
    /\ response' = HandlerResponse(r)
    /\ pc' = "idle"
    /\ UNCHANGED <<now, request_count, error_count, action, attempts, err, embeddingVars, repositoryVars>>

\* variant: the loop allows one attempt more (attempts <= max_retry_attempts)
HandlerRaises_one_more(e) ==
    /\ pc = "exec"
    /\ attempts' = attempts + 1
    /\ err' = e
    /\ UNCHANGED <<request_count, action, embeddingVars, repositoryVars>>
    /\ IF attempts + 1 <= max_retry_attempts
       THEN /\ now + retry_delay <= MaxTime
            /\ now' = now + retry_delay
            /\ UNCHANGED <<breakerVars, error_count, health_status, last_error, pc, response>>
       ELSE /\ record_failure(action)
            /\ health_status' = "degraded"
            /\ last_error' = e
            /\ error_count' = error_count + 1
            /\ response' = ErrorResponse("Command failed after attempts", e, attempts + 1, -1)
            /\ pc' = "idle"
            /\ UNCHANGED now

\* variant: every failed attempt is recorded with the breaker
HandlerRaises_every_attempt(e) ==
    /\ pc = "exec"
    /\ attempts' = attempts + 1
    /\ err' = e
    /\ UNCHANGED <<request_count, action, embeddingVars, repositoryVars>>
    /\ record_failure(action)
    /\ IF attempts + 1 < max_retry_attempts
       THEN /\ now + retry_delay <= MaxTime
            /\ now' = now + retry_delay
            /\ UNCHANGED <<error_count, health_status, last_error, pc, response>>
       ELSE /\ health_status' = "degraded"
            /\ last_error' = e
            /\ error_count' = error_count + 1
            /\ response' = ErrorResponse("Command failed after attempts", e, attempts + 1, -1)
            /\ pc' = "idle"
            /\ UNCHANGED now

\* one attempt of _execute_with_retry in which the handler raises Exception(e)
HandlerRaises(e) ==
    /\ pc = "exec"
    /\ attempts' = attempts + 1
    /\ err' = e
    /\ UNCHANGED <<request_count, action, embeddingVars, repositoryVars>>
    /\ IF attempts + 1 < max_retry_attempts
       THEN \* time.sleep(retry_delay), then the next attempt
            /\ now + retry_delay <= MaxTime
            /\ now' = now + retry_delay
            /\ UNCHANGED <<breakerVars, error_count, health_status, last_error, pc, response>>
       ELSE /\ record_failure(action)
            /\ health_status' = "degraded"
            /\ last_error' = e
            /\ error_count' = error_count + 1
            /\ response' = ErrorResponse("Command failed after attempts", e, attempts + 1, -1)
            /\ pc' = "idle"
            /\ UNCHANGED now

(* -------------------------- EmbeddingService -------------------------- *)
\* no generate_embedding call yet
NoCall == [text |-> "", result |-> <<>>, model_used |-> FALSE, pending |-> FALSE]

\* EmbeddingService.__init__; ids are the threads the process can create
InitEmbeddingThreads(async, size, ids) ==
    /\ stamp = 0
    /\ async_enabled = async
    /\ cache_size = size
    /\ embedding_cache = <<>>
    /\ embedding_queue = <<>>
    /\ embedding_callbacks = <<>>
    /\ running = FALSE
    /\ worker_thread = 0
    /\ threads = [t \in ids |-> [state |-> "dead", text |-> "", request_id |-> <<>>]]
    /\ delivered = <<>>
    /\ last_call = NoCall

InitEmbedding(async, size) == InitEmbeddingThreads(async, size, ThreadIds)

\* the keys of the cache dict
CacheKeys(cache) == {cache[i].text : i \in 1..Len(cache)}

\* the value the cache dict holds for a key
CacheGet(cache, t) == (CHOOSE i \in 1..Len(cache) : cache[i].text = t)

\* embedding = cache.pop(text); cache[text] = embedding
CachePromote(cache, t) ==
    LET i == CacheGet(cache, t)
    IN  Append(SubSeq(cache, 1, i - 1) \o SubSeq(cache, i + 1, Len(cache)), cache[i])

\* cache[text] = embedding: a key the dict holds keeps its place
DictSet(cache, t, vec) ==
    IF t \in CacheKeys(cache)
    THEN [i \in 1..Len(cache) |-> IF cache[i].text = t THEN [text |-> t, vec |-> vec] ELSE cache[i]]
    ELSE Append(cache, [text |-> t, vec |-> vec])

\* variant: nothing is dropped from a full dict
CacheAdd_no_eviction(cache, t, vec) == DictSet(cache, t, vec)

\* "Add to cache": drop the oldest key when the dict is full, then set
CacheAdd(cache, t, vec) ==
    DictSet(IF Len(cache) >= cache_size THEN Tail(cache) ELSE cache, t, vec)

(* ------------------- MemoryRepository and the store ------------------- *)
\* str(uuid.uuid4()) for the document that gets the id n: a conversation id
\* no client has named
uuid4(n) == 0 - n

\* MemoryRepository.create_scope on the metadata_scopes collection
create_scope(scopes, scope_name) ==
    IF \E i \in 1..Len(scopes) : scopes[i] = scope_name
    THEN scopes
    ELSE Append(scopes, scope_name)

\* MemoryRepository.get_scope finds a document
get_scope(scope_name) == \E i \in 1..Len(metadata_scopes) : metadata_scopes[i] = scope_name

\* variant: the memory service creates the scope on every use
scope_resolved_every_use(scope) ==
    IF auto_create_scope THEN Append(metadata_scopes, scope) ELSE metadata_scopes

\* the metadata_scopes collection after the memory service has resolved a
\* scope: created when auto_create_scope is on and no document has the name
scope_resolved(scope) ==
    IF auto_create_scope /\ ~get_scope(scope)
    THEN create_scope(metadata_scopes, scope)
    ELSE metadata_scopes

\* no command handler has returned yet
NoResult ==
    [action |-> "none", status |-> "none", error |-> "", message |-> "", memory_id |-> 0,
     deleted_count |-> -1, scope |-> None, results |-> <<>>,
     conversation_id |-> NoId, memory_ids |-> <<>>, messages |-> <<>>]

\* the positions of the memory_index rows with this source_id
RowsOf(index, sid) == {i \in 1..Len(index) : index[i].source_id = sid}

\* variant: memory_index without the unique index on source_id
insert_one_no_unique_index(index, row) ==
    [ok |-> TRUE, index |-> Append(index, row)]

\* memory_index.insert_one under the unique index on source_id:
\* a second row for a source_id raises DuplicateKeyError
insert_one(index, row) ==
    IF RowsOf(index, row.source_id) # {}
    THEN [ok |-> FALSE, index |-> index]
    ELSE [ok |-> TRUE, index |-> Append(index, row)]

\* memory_index.update_one({"source_id": sid}, {"$set": ...}): the first match
update_one(index, sid, vec, scope) ==
    IF RowsOf(index, sid) = {}
    THEN [matched_count |-> 0, index |-> index]
    ELSE LET i == CHOOSE j \in RowsOf(index, sid) : \A k \in RowsOf(index, sid) : j <= k
         IN  [matched_count |-> 1,
              index |-> [index EXCEPT ![i].embedding = vec, ![i].scope = scope]]

\* memory_index.delete_one({"source_id": sid}): the first match
delete_one(index, sid) ==
    IF RowsOf(index, sid) = {}
    THEN index
    ELSE LET i == CHOOSE j \in RowsOf(index, sid) : \A k \in RowsOf(index, sid) : j <= k
         IN  SubSeq(index, 1, i - 1) \o SubSeq(index, i + 1, Len(index))

\* the (callback, args) pairs the repository registers
CreationCallback(sid, scope) ==
    [kind |-> "creation", source_collection |-> "conversation_history", text |-> "", source_id |-> sid, scope |-> scope]
\* the creation callback store_summary registers
SummaryCallback(sid, scope) ==
    [kind |-> "creation", source_collection |-> "summaries", text |-> "", source_id |-> sid, scope |-> scope]
UpdateCallback(text, sid, scope) ==
    [kind |-> "update", source_collection |-> "conversation_history", text |-> text, source_id |-> sid, scope |-> scope]
\* the callback of a direct caller: the n-th call of the session, and
\* whether the callback raises when it is invoked
ClientCallback(text, n, raises) ==
    [kind |-> "client", source_collection |-> "", text |-> text, source_id |-> 0, scope |-> "",
     call |-> n, raises |-> raises]

\* the callback raises: the repository's callbacks catch every exception
Raises(cb) == cb.kind = "client" /\ cb.raises

\* variant: a zero vector is dropped without a row and without a log entry
handle_embedding_creation_callback_drops_zero(vec, cb, st) ==
    LET r == insert_one(st.index, [source_id |-> cb.source_id, source_collection |-> cb.source_collection,
                                    embedding |-> vec, scope |-> cb.scope])
    IN  IF vec = ZeroVector
        THEN [st EXCEPT !.pending = [st.pending EXCEPT ![cb.source_id] = None]]
        ELSE [st EXCEPT !.index = r.index,
                        !.pending = [st.pending EXCEPT ![cb.source_id] = None],
                        !.log = IF r.ok THEN st.log ELSE st.log \cup {cb.source_id}]

\* _handle_embedding_creation_callback on st = [index, pending, log]
handle_embedding_creation_callback(vec, cb, st) ==
    LET r == insert_one(st.index, [source_id |-> cb.source_id, source_collection |-> cb.source_collection,
                                    embedding |-> vec, scope |-> cb.scope])
    IN  [st EXCEPT !.index = r.index,
                   !.pending = [st.pending EXCEPT ![cb.source_id] = None],
                   !.log = IF r.ok THEN st.log ELSE st.log \cup {cb.source_id}]

\* _handle_embedding_update_callback on st = [index, pending, log]
handle_embedding_update_callback(vec, cb, st) ==
    LET u == update_one(st.index, cb.source_id, vec, cb.scope)
        r == insert_one(st.index, [source_id |-> cb.source_id, source_collection |-> cb.source_collection,
                                    embedding |-> vec, scope |-> cb.scope])
    IN  IF u.matched_count = 0
        THEN [st EXCEPT !.index = r.index,
                        !.pending = [st.pending EXCEPT ![cb.source_id] = None],
                        !.log = IF r.ok THEN st.log ELSE st.log \cup {cb.source_id}]
        ELSE [st EXCEPT !.index = u.index,
                        !.pending = [st.pending EXCEPT ![cb.source_id] = None]]

\* callback(embedding, *args)
Invoke(cb, vec, st) ==
    IF cb.kind = "creation"
    THEN handle_embedding_creation_callback(vec, cb, st)
    ELSE IF cb.kind = "update"
    THEN handle_embedding_update_callback(vec, cb, st)
    ELSE [st EXCEPT !.delivered = Append(@, [call |-> cb.call, text |-> cb.text, vec |-> vec])]

\* for callback, args, kwargs in callbacks: callback(embedding, *args, **kwargs)
RECURSIVE InvokeAll(_, _, _)
InvokeAll(cbs, vec, st) ==
    IF cbs = <<>> THEN st
    ELSE InvokeAll(Tail(cbs), vec, Invoke(Head(cbs), vec, st))

(* -------------------------- EmbeddingService -------------------------- *)
\* variant: only async_enabled decides between the fallback and the queue
generate_embedding_async_ignores_running(text, cb, model_ok, es, st) ==
    IF text = ""
    THEN [es |-> es, st |-> Invoke(cb, ZeroVector, st)]
    ELSE IF text \in CacheKeys(es.cache)
    THEN [es |-> [es EXCEPT !.cache = CachePromote(es.cache, text)],
          st |-> Invoke(cb, es.cache[CacheGet(es.cache, text)].vec, st)]
    ELSE IF ~async_enabled
    THEN IF model_ok
         THEN [es |-> [es EXCEPT !.cache = CacheAdd(es.cache, text, Encode(text))],
               st |-> IF Raises(cb)
                      THEN Invoke(cb, ZeroVector, Invoke(cb, Encode(text), st))
                      ELSE Invoke(cb, Encode(text), st)]
         ELSE [es |-> es, st |-> Invoke(cb, ZeroVector, st)]
    ELSE LET request_id == <<text, stamp>>
             registered == IF request_id \in DOMAIN es.callbacks
                           THEN es.callbacks[request_id] ELSE <<>>
         IN  [es |-> [es EXCEPT !.callbacks = (request_id :> Append(registered, cb)) @@ es.callbacks,
                                !.queue = Append(es.queue, [text |-> text, request_id |-> request_id])],
              st |-> st]

\* generate_embedding_async(text, callback, *args) on
\* es = [cache, queue, callbacks] and st = [index, pending, log];
\* model_ok says whether _generate_embedding_internal returns or raises
generate_embedding_async(text, cb, model_ok, es, st) ==
    IF text = ""
    THEN [es |-> es, st |-> Invoke(cb, ZeroVector, st)]
    ELSE IF text \in CacheKeys(es.cache)
    THEN [es |-> [es EXCEPT !.cache = CachePromote(es.cache, text)],
          st |-> Invoke(cb, es.cache[CacheGet(es.cache, text)].vec, st)]
    ELSE IF ~async_enabled \/ ~running
    THEN IF model_ok
         THEN \* a callback that raises inside the try block is called again
              \* by the except block, with the zero vector
              [es |-> [es EXCEPT !.cache = CacheAdd(es.cache, text, Encode(text))],
               st |-> IF Raises(cb)
                      THEN Invoke(cb, ZeroVector, Invoke(cb, Encode(text), st))
                      ELSE Invoke(cb, Encode(text), st)]
         ELSE [es |-> es, st |-> Invoke(cb, ZeroVector, st)]
    ELSE LET request_id == <<text, stamp>>
             registered == IF request_id \in DOMAIN es.callbacks
                           THEN es.callbacks[request_id] ELSE <<>>
         IN  [es |-> [es EXCEPT !.callbacks = (request_id :> Append(registered, cb)) @@ es.callbacks,
                                !.queue = Append(es.queue, [text |-> text, request_id |-> request_id])],
              st |-> st]

\* the request ids of the requests queued, being worked on or registered
LiveRequestIds ==
    {embedding_queue[i].request_id : i \in 1..Len(embedding_queue)}
    \cup {threads[t].request_id : t \in {u \in DOMAIN threads : threads[u].state = "busy"}}
    \cup DOMAIN embedding_callbacks

\* time.time() moves on to a reading no live request id carries
ClockAdvance ==
    /\ \E r \in LiveRequestIds : r[2] = stamp
    /\ stamp' = CHOOSE n \in 0..(Cardinality(LiveRequestIds) + 1) :
                    /\ \A r \in LiveRequestIds : r[2] # n
                    /\ \A m \in 0..(n - 1) : \E r \in LiveRequestIds : r[2] = m
    /\ UNCHANGED <<now, breakerVars, serverVars, repositoryVars,
                   async_enabled, cache_size, embedding_cache, embedding_queue, embedding_callbacks,
                   running, worker_thread, threads, delivered, last_call>>

\* start_worker
StartWorker ==
    /\ pc = "idle"
    /\ ~last_call.pending
    /\ IF worker_thread # 0 /\ threads[worker_thread].state # "dead"
       THEN UNCHANGED <<running, worker_thread, threads>>
       ELSE /\ \E t \in DOMAIN threads : threads[t].state = "dead"
            /\ LET t == CHOOSE u \in DOMAIN threads : threads[u].state = "dead"
               IN  /\ running' = TRUE
                   /\ worker_thread' = t
                   /\ threads' = [threads EXCEPT ![t].state = "idle"]
    /\ UNCHANGED <<now, breakerVars, serverVars, repositoryVars,
                   stamp, async_enabled, cache_size, embedding_cache, embedding_queue, embedding_callbacks,
                   delivered, last_call>>

\* stop_worker: a worker waiting in queue.get ends within the join; a worker
\* busy with an item may outlive the join timeout
StopWorker ==
    /\ pc = "idle"
    /\ ~last_call.pending
    /\ IF worker_thread = 0 \/ threads[worker_thread].state = "dead"
       THEN UNCHANGED <<running, worker_thread, threads>>
       ELSE /\ running' = FALSE
            /\ worker_thread' = 0
            /\ threads' = [t \in DOMAIN threads |->
                              IF threads[t].state = "idle"
                              THEN [threads[t] EXCEPT !.state = "dead"]
                              ELSE threads[t]]
    /\ UNCHANGED <<now, breakerVars, serverVars, repositoryVars,
                   stamp, async_enabled, cache_size, embedding_cache, embedding_queue, embedding_callbacks,
                   delivered, last_call>>

\* _embedding_worker: item = self.embedding_queue.get(timeout=0.1)
WorkerGet(t) ==
    /\ threads[t].state = "idle"
    /\ embedding_queue # <<>>
    /\ threads' = [threads EXCEPT ![t] = [state |-> "busy",
                                         text |-> Head(embedding_queue).text,
                                         request_id |-> Head(embedding_queue).request_id]]
    /\ embedding_queue' = Tail(embedding_queue)
    /\ UNCHANGED <<now, breakerVars, serverVars, repositoryVars,
                   stamp, async_enabled, cache_size, embedding_cache, embedding_callbacks, running, worker_thread,
                   delivered, last_call>>

\* _embedding_worker: the rest of the loop body for the item taken, then
\* the test of self.running
WorkerFinish(t, model_ok) ==
    /\ threads[t].state = "busy"
    /\ LET text == threads[t].text
           request_id == threads[t].request_id
           callbacks == IF request_id \in DOMAIN embedding_callbacks
                        THEN embedding_callbacks[request_id] ELSE <<>>
           vec == IF model_ok THEN Encode(text) ELSE ZeroVector
           st == InvokeAll(callbacks, vec,
                           [index |-> memory_index, pending |-> pending_operations, log |-> error_log,
                     delivered |-> delivered])
       IN  /\ embedding_cache' = IF model_ok THEN CacheAdd(embedding_cache, text, vec)
                                 ELSE embedding_cache
           /\ embedding_callbacks' = [r \in DOMAIN embedding_callbacks \ {request_id} |->
                                         embedding_callbacks[r]]
           /\ memory_index' = st.index
           /\ pending_operations' = st.pending
           /\ error_log' = st.log
           /\ delivered' = st.delivered
    /\ threads' = [threads EXCEPT ![t] = [state |-> IF running THEN "idle" ELSE "dead",
                                         text |-> "", request_id |-> <<>>]]
    /\ UNCHANGED <<now, breakerVars, serverVars, conversation_history, next_id, calls_made,
                   summaries, metadata_scopes, auto_create_scope, result,
                   stamp, async_enabled, cache_size, embedding_queue, running, worker_thread, last_call>>

\* variant: the cache is not looked up
generate_embedding_no_cache_lookup(text) ==
    /\ pc = "idle"
    /\ ~last_call.pending
    /\ calls_made' = calls_made + 1
    /\ IF text = ""
       THEN last_call' = [text |-> text, result |-> ZeroVector, model_used |-> FALSE, pending |-> FALSE]
       ELSE last_call' = [text |-> text, result |-> <<>>, model_used |-> TRUE, pending |-> TRUE]
    /\ UNCHANGED <<now, breakerVars, serverVars, conversation_history, next_id, memory_index,
                   summaries, metadata_scopes, auto_create_scope, result,
                   pending_operations, error_log, stamp, async_enabled, cache_size, embedding_cache,
                   embedding_queue, embedding_callbacks, running, worker_thread, threads, delivered>>

\* generate_embedding(text) up to the call of the model: the empty text and
\* a cache hit return at once
generate_embedding(text) ==
    /\ pc = "idle"
    /\ ~last_call.pending
    /\ calls_made' = calls_made + 1
    /\ IF text = ""
       THEN /\ last_call' = [text |-> text, result |-> ZeroVector, model_used |-> FALSE, pending |-> FALSE]
            /\ UNCHANGED embedding_cache
       ELSE IF text \in CacheKeys(embedding_cache)
       THEN /\ last_call' = [text |-> text, result |-> embedding_cache[CacheGet(embedding_cache, text)].vec,
                             model_used |-> FALSE, pending |-> FALSE]
            /\ embedding_cache' = CachePromote(embedding_cache, text)
       ELSE /\ last_call' = [text |-> text, result |-> <<>>, model_used |-> TRUE, pending |-> TRUE]
            /\ UNCHANGED embedding_cache
    /\ UNCHANGED <<now, breakerVars, serverVars, conversation_history, next_id, memory_index,
                   summaries, metadata_scopes, auto_create_scope, result,
                   pending_operations, error_log, stamp, async_enabled, cache_size, embedding_queue,
                   embedding_callbacks, running, worker_thread, threads, delivered>>

\* variant: the zero vector of a failed generation is cached like a result
generate_embedding_return_caches_failure(model_ok) ==
    /\ last_call.pending
    /\ LET vec == IF model_ok THEN Encode(last_call.text) ELSE ZeroVector
       IN  /\ embedding_cache' = CacheAdd(embedding_cache, last_call.text, vec)
           /\ last_call' = [last_call EXCEPT !.result = vec, !.pending = FALSE]
    /\ UNCHANGED <<now, breakerVars, serverVars, repositoryVars, stamp, async_enabled, cache_size, embedding_queue,
                   embedding_callbacks, running, worker_thread, threads, delivered>>

\* generate_embedding from the return (or the exception) of
\* _generate_embedding_internal on
generate_embedding_return(model_ok) ==
    /\ last_call.pending
    /\ IF model_ok
       THEN /\ embedding_cache' = CacheAdd(embedding_cache, last_call.text, Encode(last_call.text))
            /\ last_call' = [last_call EXCEPT !.result = Encode(last_call.text), !.pending = FALSE]
       ELSE /\ UNCHANGED embedding_cache
            /\ last_call' = [last_call EXCEPT !.result = ZeroVector, !.pending = FALSE]
    /\ UNCHANGED <<now, breakerVars, serverVars, repositoryVars, stamp, async_enabled, cache_size, embedding_queue,
                   embedding_callbacks, running, worker_thread, threads, delivered>>

\* generate_embedding_async(text, callback) called by a direct caller
request_embedding(text, raises, model_ok) ==
    /\ pc = "idle"
    /\ ~last_call.pending
    /\ calls_made' = calls_made + 1
    /\ LET r == generate_embedding_async(text, ClientCallback(text, calls_made + 1, raises), model_ok,
                    [cache |-> embedding_cache, queue |-> embedding_queue, callbacks |-> embedding_callbacks],
                    [index |-> memory_index, pending |-> pending_operations, log |-> error_log,
                     delivered |-> delivered])
       IN  /\ embedding_cache' = r.es.cache
           /\ embedding_queue' = r.es.queue
           /\ embedding_callbacks' = r.es.callbacks
           /\ delivered' = r.st.delivered
    /\ UNCHANGED <<now, breakerVars, serverVars, conversation_history, next_id, memory_index,
                   summaries, metadata_scopes, auto_create_scope, result,
                   pending_operations, error_log, stamp, async_enabled, cache_size, running, worker_thread,
                   threads, last_call>>

(* -------------------------- MemoryRepository -------------------------- *)
\* store_conversation_memory (with _create_memory_embedding_async)
store_conversation_memory(text, scope, model_ok) ==
    /\ pc = "idle"
    /\ calls_made < MaxCalls
    /\ calls_made' = calls_made + 1
    /\ LET memory_id == next_id
           r == generate_embedding_async(text, CreationCallback(memory_id, scope), model_ok,
                    [cache |-> embedding_cache, queue |-> embedding_queue, callbacks |-> embedding_callbacks],
                    [index |-> memory_index, pending |-> pending_operations, log |-> error_log,
                     delivered |-> delivered])
       IN  /\ conversation_history' = (memory_id :> [text |-> text, scope |-> scope, tags |-> {}, timestamp |-> now,
                                                     conversation_id |-> uuid4(memory_id)])
                                       @@ conversation_history
           /\ next_id' = next_id + 1
           /\ embedding_cache' = r.es.cache
           /\ embedding_queue' = r.es.queue
           /\ embedding_callbacks' = r.es.callbacks
           /\ memory_index' = r.st.index
           /\ pending_operations' = [r.st.pending EXCEPT ![memory_id] = "embedding_creation"]
           /\ error_log' = r.st.log
           /\ delivered' = r.st.delivered
    /\ UNCHANGED <<now, breakerVars, serverVars, stamp, async_enabled, cache_size, running, worker_thread, threads,
                   last_call, summaries, metadata_scopes, auto_create_scope, result>>

\* update_conversation_memory (with _update_memory_embedding_async) of a
\* memory MemoryService.update_memory found in the store
update_conversation_memory(memory_id, text, scope, model_ok) ==
    /\ pc = "idle"
    /\ memory_id \in DOMAIN conversation_history
    /\ calls_made < MaxCalls
    /\ calls_made' = calls_made + 1
    /\ LET r == generate_embedding_async(text, UpdateCallback(text, memory_id, scope), model_ok,
                    [cache |-> embedding_cache, queue |-> embedding_queue, callbacks |-> embedding_callbacks],
                    [index |-> memory_index, pending |-> pending_operations, log |-> error_log,
                     delivered |-> delivered])
       IN  /\ conversation_history' = [conversation_history EXCEPT ![memory_id].text = text,
                                                                 ![memory_id].scope = scope,
                                                                 ![memory_id].timestamp = now]
           /\ embedding_cache' = r.es.cache
           /\ embedding_queue' = r.es.queue
           /\ embedding_callbacks' = r.es.callbacks
           /\ memory_index' = r.st.index
           /\ pending_operations' = [r.st.pending EXCEPT ![memory_id] = "embedding_update"]
           /\ error_log' = r.st.log
           /\ delivered' = r.st.delivered
    /\ UNCHANGED <<now, breakerVars, serverVars, next_id, stamp, async_enabled, cache_size, running, worker_thread,
                   threads, last_call, summaries, metadata_scopes, auto_create_scope, result>>

\* delete_memory (with _delete_memory_embedding) of an id a store returned
delete_memory(memory_id) ==
    /\ pc = "idle"
    /\ memory_id < next_id
    /\ calls_made < MaxCalls
    /\ calls_made' = calls_made + 1
    /\ conversation_history' = [i \in DOMAIN conversation_history \ {memory_id} |-> conversation_history[i]]
    /\ memory_index' = delete_one(memory_index, memory_id)
    /\ UNCHANGED <<now, breakerVars, serverVars, embeddingVars, next_id, pending_operations, error_log,
                   summaries, metadata_scopes, auto_create_scope, result>>

\* the database is empty, or holds a memory of an earlier session with its
\* index row
InitRepository(persisted) ==
    /\ conversation_history = IF persisted
                              THEN (1 :> [text |-> "a", scope |-> "s1", tags |-> {}, timestamp |-> 0,
                                          conversation_id |-> uuid4(1)])
                              ELSE <<>>
    /\ next_id = IF persisted THEN 2 ELSE 1
    /\ memory_index = IF persisted
                      THEN <<[source_id |-> 1, source_collection |-> "conversation_history",
                              embedding |-> Encode("a"), scope |-> "s1"]>>
                      ELSE <<>>
    /\ pending_operations = [i \in Ids |-> None]
    /\ error_log = {}
    /\ calls_made = 0
    /\ summaries = <<>>
    /\ metadata_scopes = IF persisted THEN <<"s1">> ELSE <<>>
    /\ auto_create_scope = TRUE
    /\ result = NoResult

\* the clock advances by one second
Tick ==
    /\ now < MaxTime
    /\ now' = now + 1
    /\ UNCHANGED <<breakerVars, serverVars, embeddingVars, repositoryVars>>

(* ------------------- lexical and semantic retrieval ------------------- *)
\* bool(x) of an optional string of a request
Truthy(x) == x # None /\ x # ""

\* the letters of the texts that are stored and asked for
Letters(t) ==
    CASE t = "a" -> <<"a">>
      [] t = "ab" -> <<"a", "b">>
      [] t = "B" -> <<"B">>
      [] OTHER -> <<>>

\* the "i" option of $regex
Fold(c) == IF c = "A" THEN "a" ELSE IF c = "B" THEN "b" ELSE c

\* {"$regex": search_text, "$options": "i"} on a text of letters
RegexMatches(search_text, text) ==
    LET q == Letters(search_text)
        t == Letters(text)
    IN  \E i \in 0..(Len(t) - Len(q)) : \A j \in 1..Len(q) : Fold(t[i + j]) = Fold(q[j])

\* the cosine of the vectors the encoder gives two texts, in hundredths:
\* the same text gives 1.0, other texts the share of the letters they have
\* in common
Cosine(t, u) ==
    LET lt == {Fold(Letters(t)[i]) : i \in 1..Len(Letters(t))}
        lu == {Fold(Letters(u)[i]) : i \in 1..Len(Letters(u))}
    IN  IF t = u THEN 100
        ELSE IF lt \cup lu = {} THEN 0
        ELSE (100 * Cardinality(lt \cap lu)) \div Cardinality(lt \cup lu)

\* compute_similarity: 0.0 when a norm is zero
compute_similarity(embedding1, embedding2) ==
    IF embedding1 = ZeroVector \/ embedding2 = ZeroVector
    THEN 0
    ELSE Cosine(embedding1[2], embedding2[2])

\* seq[:k] of Python
Slice(seq, k) ==
    IF k >= 0
    THEN SubSeq(seq, 1, IF k < Len(seq) THEN k ELSE Len(seq))
    ELSE SubSeq(seq, 1, IF Len(seq) + k > 0 THEN Len(seq) + k ELSE 0)

\* one step of sorted(..., key=score, reverse=True): the element goes behind
\* the elements that score at least as much
InsertByScore(sorted, x) ==
    LET k == Cardinality({i \in 1..Len(sorted) : sorted[i].score >= x.score})
    IN  SubSeq(sorted, 1, k) \o <<x>> \o SubSeq(sorted, k + 1, Len(sorted))

\* sort(key=lambda x: x[1], reverse=True): stable, equal scores keep their order
RECURSIVE SortByScore(_)
SortByScore(seq) ==
    IF seq = <<>> THEN <<>>
    ELSE InsertByScore(SortByScore(SubSeq(seq, 1, Len(seq) - 1)), seq[Len(seq)])

\* the ids of a collection in the order find() returns its documents
RECURSIVE NaturalOrder(_)
NaturalOrder(ids) ==
    IF ids = {} THEN <<>>
    ELSE LET first == CHOOSE i \in ids : \A j \in ids : i <= j
         IN  <<first>> \o NaturalOrder(ids \ {first})

\* the memory ids of a list of (memory, score) tuples
MemoryIds(tuples) == {tuples[i].memory_id : i \in 1..Len(tuples)}

\* find_most_similar: the indices of the candidates at or above the
\* threshold, most similar first, at most top_k of them
find_most_similar(query_embedding, candidate_embeddings, top_k, threshold) ==
    LET indexed == [i \in 1..Len(candidate_embeddings) |->
                       [idx |-> i, score |-> compute_similarity(query_embedding, candidate_embeddings[i])]]
        filtered == SelectSeq(indexed, LAMBDA p : p.score >= threshold)
        sorted == SortByScore(filtered)
        top == Slice(sorted, top_k)
    IN  [i \in 1..Len(top) |-> top[i].idx]

\* variant: a row is a hit, whether its document is in the store or not
get_conversations_by_semantic_search_no_lookup(query_embedding, scope, top_k, threshold) ==
    LET index_items == SelectSeq(memory_index,
                           LAMBDA row : /\ row.source_collection = "conversation_history"
                                        /\ (Truthy(scope) => row.scope = scope))
        candidate_embeddings == [i \in 1..Len(index_items) |-> index_items[i].embedding]
        most_similar_indices == find_most_similar(query_embedding, candidate_embeddings, top_k, threshold)
        found == [i \in 1..Len(most_similar_indices) |->
                     [memory_id |-> index_items[most_similar_indices[i]].source_id,
                      score |-> compute_similarity(query_embedding,
                                                   candidate_embeddings[most_similar_indices[i]])]]
    IN  SortByScore(found)

\* get_conversations_by_semantic_search from the query embedding on: the
\* (memory, score) tuples of the rows most similar to the query whose
\* document is in the store
get_conversations_by_semantic_search(query_embedding, scope, top_k, threshold) ==
    LET index_items == SelectSeq(memory_index,
                           LAMBDA row : /\ row.source_collection = "conversation_history"
                                        /\ (Truthy(scope) => row.scope = scope))
        candidate_embeddings == [i \in 1..Len(index_items) |-> index_items[i].embedding]
        most_similar_indices == find_most_similar(query_embedding, candidate_embeddings, top_k, threshold)
        found == [i \in 1..Len(most_similar_indices) |->
                     [memory_id |-> index_items[most_similar_indices[i]].source_id,
                      score |-> compute_similarity(query_embedding,
                                                   candidate_embeddings[most_similar_indices[i]])]]
        result_items == SelectSeq(found, LAMBDA r : r.memory_id \in DOMAIN conversation_history)
    IN  SortByScore(result_items)

\* get_conversations_by_text_search: the ids of the documents the regex finds
get_conversations_by_text_search(search_text, scope) ==
    SelectSeq(NaturalOrder(DOMAIN conversation_history),
              LAMBDA i : /\ RegexMatches(search_text, conversation_history[i].text)
                         /\ (Truthy(scope) => conversation_history[i].scope = scope))

\* get_conversations_by_scope and get_conversations_by_tag
get_conversations_by_scope(scope) ==
    SelectSeq(NaturalOrder(DOMAIN conversation_history),
              LAMBDA i : conversation_history[i].scope = scope)

get_conversations_by_tag(tag) ==
    SelectSeq(NaturalOrder(DOMAIN conversation_history),
              LAMBDA i : tag \in conversation_history[i].tags)

\* the first tuple of every memory id, in the order of the list
RECURSIVE Unique(_)
Unique(tuples) ==
    IF tuples = <<>> THEN <<>>
    ELSE LET unique_results == Unique(SubSeq(tuples, 1, Len(tuples) - 1))
             last == tuples[Len(tuples)]
         IN  IF last.memory_id \in MemoryIds(unique_results)
             THEN unique_results
             ELSE Append(unique_results, last)

\* perform_hybrid_search from the query embedding on
perform_hybrid_search(query_embedding, query_text, scope, top_k, similarity_threshold) ==
    LET semantic_results == get_conversations_by_semantic_search(query_embedding, scope, top_k,
                                                                 similarity_threshold)
        keyword_results == get_conversations_by_text_search(query_text, scope)
        keyword_result_tuples == [i \in 1..Len(keyword_results) |->
                                     [memory_id |-> keyword_results[i], score |-> 100]]
        combined_results == keyword_result_tuples \o
                            SelectSeq(semantic_results,
                                      LAMBDA r : r.memory_id \notin MemoryIds(keyword_result_tuples))
    IN  Slice(SortByScore(Unique(combined_results)), top_k)

\* generate_embedding(text) as one call: the vector it returns and the cache
\* it leaves
generate_embedding_result(text, model_ok, cache) ==
    IF text = ""
    THEN [vec |-> ZeroVector, cache |-> cache]
    ELSE IF text \in CacheKeys(cache)
    THEN [vec |-> cache[CacheGet(cache, text)].vec, cache |-> CachePromote(cache, text)]
    ELSE IF model_ok
    THEN [vec |-> Encode(text), cache |-> CacheAdd(cache, text, Encode(text))]
    ELSE [vec |-> ZeroVector, cache |-> cache]

(* --------------------------- command handlers --------------------------- *)
\* the error a handler of commands.py returns itself
HandlerError(name, text) ==
    [NoResult EXCEPT !.action = name, !.status = "error", !.error = text]

\* the error MemoryService returns
ServiceError(name, text) ==
    [NoResult EXCEPT !.action = name, !.status = "ERROR", !.message = text]

\* the response of a command that was carried out
OkResult(name) ==
    [NoResult EXCEPT !.action = name, !.status = "OK"]

\* the results list of a response
Results(ids, confidence) == [i \in 1..Len(ids) |-> [memory_id |-> ids[i], confidence |-> confidence]]

\* handle_store_memory, with MemoryService.store_memory and
\* MemoryRepository.store_conversation_memory
handle_store_memory(content, scope, tags, model_ok) ==
    /\ pc = "idle"
    /\ ~last_call.pending
    /\ calls_made' = calls_made + 1
    /\ IF content = ""
       THEN /\ result' = HandlerError("store_memory", "Missing required 'content' field")
            /\ UNCHANGED <<conversation_history, next_id, memory_index, pending_operations, error_log,
                           metadata_scopes, embedding_cache, embedding_queue, embedding_callbacks,
                           delivered>>
       ELSE LET memory_scope == IF Truthy(scope) THEN scope ELSE default_scope
                memory_id == next_id
                r == generate_embedding_async(content, CreationCallback(memory_id, memory_scope), model_ok,
                         [cache |-> embedding_cache, queue |-> embedding_queue,
                          callbacks |-> embedding_callbacks],
                         [index |-> memory_index, pending |-> pending_operations, log |-> error_log,
                          delivered |-> delivered])
            IN  /\ metadata_scopes' = scope_resolved(memory_scope)
                /\ conversation_history' =
                       (memory_id :> [text |-> content, scope |-> memory_scope, tags |-> tags,
                                      timestamp |-> now, conversation_id |-> uuid4(memory_id)])
                       @@ conversation_history
                /\ next_id' = next_id + 1
                /\ embedding_cache' = r.es.cache
                /\ embedding_queue' = r.es.queue
                /\ embedding_callbacks' = r.es.callbacks
                /\ memory_index' = r.st.index
                /\ pending_operations' = [r.st.pending EXCEPT ![memory_id] = "embedding_creation"]
                /\ error_log' = r.st.log
                /\ delivered' = r.st.delivered
                /\ result' = [OkResult("store_memory") EXCEPT !.memory_id = memory_id]
    /\ UNCHANGED <<now, breakerVars, serverVars, stamp, async_enabled, cache_size, running, worker_thread,
                   threads, last_call, summaries, auto_create_scope>>

\* MemoryRepository.store_summary, as create_conversation_summary calls it
store_summary(summary_text, scope, model_ok) ==
    /\ pc = "idle"
    /\ ~last_call.pending
    /\ calls_made' = calls_made + 1
    /\ LET summary_id == next_id
           r == generate_embedding_async(summary_text, SummaryCallback(summary_id, scope), model_ok,
                    [cache |-> embedding_cache, queue |-> embedding_queue, callbacks |-> embedding_callbacks],
                    [index |-> memory_index, pending |-> pending_operations, log |-> error_log,
                     delivered |-> delivered])
       IN  /\ summaries' = (summary_id :> [summary_text |-> summary_text, scope |-> scope]) @@ summaries
           /\ next_id' = next_id + 1
           /\ embedding_cache' = r.es.cache
           /\ embedding_queue' = r.es.queue
           /\ embedding_callbacks' = r.es.callbacks
           /\ memory_index' = r.st.index
           /\ pending_operations' = [r.st.pending EXCEPT ![summary_id] = "embedding_creation"]
           /\ error_log' = r.st.log
           /\ delivered' = r.st.delivered
    /\ UNCHANGED <<now, breakerVars, serverVars, stamp, async_enabled, cache_size, running, worker_thread,
                   threads, last_call, conversation_history, metadata_scopes, auto_create_scope, result>>

\* an ISO string of a time_range: absent from the object, not in ISO format,
\* or a time without or with a UTC offset
IsoAbsent == [kind |-> "absent", instant |-> 0]
IsoUnparsable == [kind |-> "unparsable", instant |-> 0]
IsoNaive(t) == [kind |-> "naive", instant |-> t]
IsoAware(t) == [kind |-> "aware", instant |-> t]

\* the time_range of a filter: absent, a JSON value that is no object, or an
\* object with from and to
NoTimeRange == [kind |-> "absent", from |-> IsoAbsent, to |-> IsoAbsent]
TimeRangeNotObject == [kind |-> "not_object", from |-> IsoAbsent, to |-> IsoAbsent]
TimeRange(from, to) == [kind |-> "object", from |-> from, to |-> to]

\* datetime.fromisoformat("0001-01-01T00:00:00") and ("9999-12-31T23:59:59")
\* on the time line of the clock
MinDatetime == IsoNaive(0 - 1)
MaxDatetime == IsoNaive(MaxTime + 1)

\* from_time <= memory.timestamp <= to_time raises TypeError: a time with an
\* offset is compared with the naive timestamp of a memory; the second
\* comparison is made only when the first one is true
ComparisonRaises(from_time, timestamp, to_time) ==
    \/ from_time.kind = "aware"
    \/ from_time.instant <= timestamp /\ to_time.kind = "aware"

\* the time_range block of MemoryService.retrieve_memory for a time_range
\* that is an object: ValueError and TypeError leave the list as it was
time_range_filter(time_range, memory_tuples) ==
    LET from_time == IF time_range.from.kind = "absent" THEN MinDatetime ELSE time_range.from
        to_time == IF time_range.to.kind = "absent" THEN MaxDatetime ELSE time_range.to
    IN  IF time_range.kind # "object"
        THEN memory_tuples
        ELSE IF from_time.kind = "unparsable" \/ to_time.kind = "unparsable"
        THEN memory_tuples
        ELSE IF \E i \in 1..Len(memory_tuples) :
                    ComparisonRaises(from_time, conversation_history[memory_tuples[i].memory_id].timestamp,
                                     to_time)
        THEN memory_tuples
        ELSE SelectSeq(memory_tuples,
                       LAMBDA m : /\ from_time.instant <= conversation_history[m.memory_id].timestamp
                                  /\ conversation_history[m.memory_id].timestamp <= to_time.instant)

\* an exception that leaves a handler of commands.py
HandlerRaised(name, text) ==
    [NoResult EXCEPT !.action = name, !.status = "raised", !.error = text]

\* handle_retrieve_memory, with MemoryService.retrieve_memory
handle_retrieve_memory(query, scope, tags, time_range, top_k, model_ok) ==
    /\ pc = "idle"
    /\ ~last_call.pending
    /\ IF query = ""
       THEN /\ result' = HandlerError("retrieve_memory", "Missing required 'query' field")
            /\ UNCHANGED embedding_cache
       ELSE LET search_scope == IF Truthy(scope) THEN scope ELSE default_scope
                e == generate_embedding_result(query, model_ok, embedding_cache)
                memory_tuples == perform_hybrid_search(e.vec, query, search_scope, top_k,
                                                       SimilarityThreshold)
                tagged == IF tags # {}
                          THEN SelectSeq(memory_tuples,
                                         LAMBDA m : tags \subseteq conversation_history[m.memory_id].tags)
                          ELSE memory_tuples
                timed == time_range_filter(time_range, tagged)
            IN  /\ embedding_cache' = e.cache
                /\ result' = IF time_range.kind = "not_object"
                             THEN HandlerRaised("retrieve_memory", "AttributeError")
                             ELSE [OkResult("retrieve_memory") EXCEPT !.results = [i \in 1..Len(timed) |->
                                                 [memory_id |-> timed[i].memory_id,
                                                  confidence |-> timed[i].score]]]
    /\ UNCHANGED <<now, breakerVars, serverVars, stamp, async_enabled, cache_size, embedding_queue,
                   embedding_callbacks, running, worker_thread, threads, delivered, last_call,
                   conversation_history, next_id, memory_index, pending_operations, error_log,
                   summaries, metadata_scopes, auto_create_scope, calls_made>>

\* handle_search_by_tag, with MemoryService.search_by_tag
handle_search_by_tag(tag, query, model_ok) ==
    /\ pc = "idle"
    /\ ~last_call.pending
    /\ IF tag = ""
       THEN /\ result' = HandlerError("search_by_tag", "Missing required 'tag' field")
            /\ UNCHANGED embedding_cache
       ELSE LET memories == get_conversations_by_tag(tag)
                memory_ids == {memories[i] : i \in 1..Len(memories)}
                e == IF Truthy(query) /\ memory_ids # {}
                     THEN generate_embedding_result(query, model_ok, embedding_cache)
                     ELSE [vec |-> ZeroVector, cache |-> embedding_cache]
                filtered_memory_tuples ==
                    get_conversations_by_semantic_search(e.vec, None, Cardinality(memory_ids),
                                                         SearchThreshold)
                memory_tuples == IF memory_ids # {}
                                 THEN SelectSeq(filtered_memory_tuples,
                                                LAMBDA m : m.memory_id \in memory_ids)
                                 ELSE <<>>
                found == IF Truthy(query)
                         THEN [i \in 1..Len(memory_tuples) |-> memory_tuples[i].memory_id]
                         ELSE memories
            IN  /\ embedding_cache' = e.cache
                /\ result' = [OkResult("search_by_tag") EXCEPT !.results = Results(found, 100)]
    /\ UNCHANGED <<now, breakerVars, serverVars, stamp, async_enabled, cache_size, embedding_queue,
                   embedding_callbacks, running, worker_thread, threads, delivered, last_call,
                   conversation_history, next_id, memory_index, pending_operations, error_log,
                   summaries, metadata_scopes, auto_create_scope, calls_made>>

\* handle_search_by_scope, with MemoryService.search_by_scope
handle_search_by_scope(scope, query, model_ok) ==
    /\ pc = "idle"
    /\ ~last_call.pending
    /\ IF scope = ""
       THEN /\ result' = HandlerError("search_by_scope", "Missing required 'scope' field")
            /\ UNCHANGED embedding_cache
       ELSE LET e == IF Truthy(query)
                     THEN generate_embedding_result(query, model_ok, embedding_cache)
                     ELSE [vec |-> ZeroVector, cache |-> embedding_cache]
                memory_tuples == get_conversations_by_semantic_search(e.vec, scope, ScopeSearchTopK,
                                                                      SearchThreshold)
                found == IF Truthy(query)
                         THEN [i \in 1..Len(memory_tuples) |-> memory_tuples[i].memory_id]
                         ELSE get_conversations_by_scope(scope)
            IN  /\ embedding_cache' = e.cache
                /\ result' = [OkResult("search_by_scope") EXCEPT !.results = Results(found, 100)]
    /\ UNCHANGED <<now, breakerVars, serverVars, stamp, async_enabled, cache_size, embedding_queue,
                   embedding_callbacks, running, worker_thread, threads, delivered, last_call,
                   conversation_history, next_id, memory_index, pending_operations, error_log,
                   summaries, metadata_scopes, auto_create_scope, calls_made>>

\* for memory_id in memory_ids: memory_index.delete_one({"source_id": memory_id})
RECURSIVE DeleteRows(_, _)
DeleteRows(index, memory_ids) ==
    IF memory_ids = <<>> THEN index
    ELSE DeleteRows(delete_one(index, Head(memory_ids)), Tail(memory_ids))

\* MemoryRepository.delete_memories_by_scope: the collections it leaves and
\* the count it returns
delete_memories_by_scope(scope) ==
    LET memory_ids == get_conversations_by_scope(scope)
    IN  [history |-> [i \in DOMAIN conversation_history \ {memory_ids[k] : k \in 1..Len(memory_ids)} |->
                         conversation_history[i]],
         index |-> SelectSeq(memory_index, LAMBDA row : row.scope # scope),
         deleted_count |-> Len(memory_ids)]

\* MemoryRepository.delete_memories_by_tag
delete_memories_by_tag(tag) ==
    LET memory_ids == get_conversations_by_tag(tag)
    IN  [history |-> [i \in DOMAIN conversation_history \ {memory_ids[k] : k \in 1..Len(memory_ids)} |->
                         conversation_history[i]],
         index |-> DeleteRows(memory_index, memory_ids),
         deleted_count |-> Len(memory_ids)]

\* MemoryRepository.delete_memory, with _delete_memory_embedding
delete_memory_by_id(memory_id) ==
    [history |-> [i \in DOMAIN conversation_history \ {memory_id} |-> conversation_history[i]],
     index |-> delete_one(memory_index, memory_id),
     deleted_count |-> IF memory_id \in DOMAIN conversation_history THEN 1 ELSE 0]

\* variant: every criterion of the target is applied, not only the first
MemoryService_delete_memory_every_criterion(memory_id, scope, tag, query) ==
    LET by_id == delete_memory_by_id(memory_id)
        ids == {i \in DOMAIN conversation_history :
                   \/ memory_id # NoId /\ i = memory_id
                   \/ Truthy(scope) /\ conversation_history[i].scope = scope
                   \/ Truthy(tag) /\ tag \in conversation_history[i].tags}
    IN  IF memory_id = NoId /\ ~Truthy(scope) /\ ~Truthy(tag)
        THEN [history |-> conversation_history, index |-> memory_index,
              result |-> ServiceError("delete_memory", "Delete by query not implemented yet")]
        ELSE [history |-> [i \in DOMAIN conversation_history \ ids |-> conversation_history[i]],
              index |-> SelectSeq(memory_index, LAMBDA row : row.source_id \notin ids),
              result |-> [OkResult("delete_memory") EXCEPT !.deleted_count = Cardinality(ids),
                                                           !.scope = IF Truthy(scope) THEN scope ELSE None]]

\* MemoryService.delete_memory: the collections it leaves and its response
MemoryService_delete_memory(memory_id, scope, tag, query) ==
    LET deleted == IF memory_id # NoId THEN delete_memory_by_id(memory_id)
                   ELSE IF Truthy(scope) THEN delete_memories_by_scope(scope)
                   ELSE delete_memories_by_tag(tag)
    IN  IF memory_id # NoId \/ Truthy(scope) \/ Truthy(tag)
        THEN [history |-> deleted.history, index |-> deleted.index,
              result |-> [OkResult("delete_memory") EXCEPT !.deleted_count = deleted.deleted_count,
                                                           !.scope = IF Truthy(scope) THEN scope ELSE None]]
        ELSE IF Truthy(query)
        THEN [history |-> conversation_history, index |-> memory_index,
              result |-> ServiceError("delete_memory", "Delete by query not implemented yet")]
        ELSE [history |-> conversation_history, index |-> memory_index,
              result |-> ServiceError("delete_memory", "No deletion criteria provided")]

\* variant: the target goes to the memory service unchecked
handle_delete_memory_unchecked(memory_id, scope, tag, query) ==
    /\ pc = "idle"
    /\ ~last_call.pending
    /\ calls_made' = calls_made + 1
    /\ LET r == MemoryService_delete_memory(memory_id, scope, tag, query)
       IN  /\ conversation_history' = r.history
           /\ memory_index' = r.index
           /\ result' = r.result
    /\ UNCHANGED <<now, breakerVars, serverVars, embeddingVars, next_id, pending_operations, error_log,
                   summaries, metadata_scopes, auto_create_scope>>

\* handle_delete_memory
handle_delete_memory(memory_id, scope, tag, query) ==
    /\ pc = "idle"
    /\ ~last_call.pending
    /\ calls_made' = calls_made + 1
    /\ IF ~(memory_id # NoId \/ Truthy(scope) \/ Truthy(tag) \/ Truthy(query))
       THEN /\ result' = HandlerError("delete_memory", "At least one deletion criterion is required")
            /\ UNCHANGED <<conversation_history, memory_index>>
       ELSE LET r == MemoryService_delete_memory(memory_id, scope, tag, query)
            IN  /\ conversation_history' = r.history
                /\ memory_index' = r.index
                /\ result' = r.result
    /\ UNCHANGED <<now, breakerVars, serverVars, embeddingVars, next_id, pending_operations, error_log,
                   summaries, metadata_scopes, auto_create_scope>>

\* MemoryService.update_memory of a caller that passes no tags; content and
\* scope None keep what is stored. update_one reports modified_count 0 for
\* a document that is left as it was
update_memory(memory_id, content, scope, model_ok) ==
    /\ pc = "idle"
    /\ ~last_call.pending
    /\ calls_made' = calls_made + 1
    /\ IF memory_id \notin DOMAIN conversation_history
       THEN /\ result' = ServiceError("update_memory", "not found")
            /\ UNCHANGED <<conversation_history, memory_index, pending_operations, error_log,
                           metadata_scopes, embedding_cache, embedding_queue, embedding_callbacks,
                           delivered>>
       ELSE LET memory == conversation_history[memory_id]
                text == IF content # None THEN content ELSE memory.text
                memory_scope == IF scope # None THEN scope ELSE memory.scope
                updated == [memory EXCEPT !.text = text, !.scope = memory_scope, !.timestamp = now]
                r == generate_embedding_async(text, UpdateCallback(text, memory_id, memory_scope), model_ok,
                         [cache |-> embedding_cache, queue |-> embedding_queue,
                          callbacks |-> embedding_callbacks],
                         [index |-> memory_index, pending |-> pending_operations, log |-> error_log,
                          delivered |-> delivered])
            IN  /\ metadata_scopes' = IF scope # None THEN scope_resolved(scope) ELSE metadata_scopes
                /\ conversation_history' = [conversation_history EXCEPT ![memory_id] = updated]
                /\ embedding_cache' = r.es.cache
                /\ embedding_queue' = r.es.queue
                /\ embedding_callbacks' = r.es.callbacks
                /\ memory_index' = r.st.index
                /\ pending_operations' = [r.st.pending EXCEPT ![memory_id] = "embedding_update"]
                /\ error_log' = r.st.log
                /\ delivered' = r.st.delivered
                /\ result' = IF updated # memory
                             THEN [OkResult("update_memory") EXCEPT !.memory_id = memory_id]
                             ELSE ServiceError("update_memory", "Failed to update")
    /\ UNCHANGED <<now, breakerVars, serverVars, stamp, async_enabled, cache_size, running, worker_thread,
                   threads, last_call, next_id, summaries, auto_create_scope>>

\* the loop of MemoryRepository.store_conversation_batch over the messages,
\* each stored by store_conversation_memory; acc carries the collection, the
\* next _id, the embedding service, the repository and the ids stored
RECURSIVE store_conversation_batch(_, _, _, _, _)
store_conversation_batch(messages, conversation_id, scope, model_ok, acc) ==
    IF messages = <<>>
    THEN acc
    ELSE LET message == Head(messages)
             memory_id == acc.next_id
             r == generate_embedding_async(message.text, CreationCallback(memory_id, scope), model_ok,
                                           acc.es, acc.st)
         IN  store_conversation_batch(Tail(messages), conversation_id, scope, model_ok,
                 [history |-> (memory_id :> [text |-> message.text, scope |-> scope, tags |-> {},
                                             timestamp |-> IF message.timestamp = NoTimestamp
                                                           THEN now ELSE message.timestamp,
                                             conversation_id |-> conversation_id])
                              @@ acc.history,
                  next_id |-> memory_id + 1,
                  es |-> r.es,
                  st |-> [r.st EXCEPT !.pending = (memory_id :> "embedding_creation") @@ r.st.pending],
                  memory_ids |-> Append(acc.memory_ids, memory_id)])

\* handle_store_conversation_history, with
\* MemoryService.store_conversation_history; the scope is metadata.scope
handle_store_conversation_history(messages, conversation_id, scope, model_ok) ==
    /\ pc = "idle"
    /\ ~last_call.pending
    /\ calls_made' = calls_made + 1
    /\ IF messages = <<>>
       THEN /\ result' = [NoResult EXCEPT !.action = "store_conversation_history", !.status = "ERROR",
                                          !.error = "Missing or empty 'messages' field"]
            /\ UNCHANGED <<conversation_history, next_id, memory_index, pending_operations, error_log,
                           metadata_scopes, embedding_cache, embedding_queue, embedding_callbacks,
                           delivered>>
       ELSE LET memory_scope == IF Truthy(scope) THEN scope ELSE default_scope
                id == IF conversation_id # NoId THEN conversation_id ELSE uuid4(next_id)
                r == store_conversation_batch(messages, id, memory_scope, model_ok,
                         [history |-> conversation_history,
                          next_id |-> next_id,
                          es |-> [cache |-> embedding_cache, queue |-> embedding_queue,
                                  callbacks |-> embedding_callbacks],
                          st |-> [index |-> memory_index, pending |-> pending_operations,
                                  log |-> error_log, delivered |-> delivered],
                          memory_ids |-> <<>>])
            IN  /\ metadata_scopes' = scope_resolved(memory_scope)
                /\ conversation_history' = r.history
                /\ next_id' = r.next_id
                /\ embedding_cache' = r.es.cache
                /\ embedding_queue' = r.es.queue
                /\ embedding_callbacks' = r.es.callbacks
                /\ memory_index' = r.st.index
                /\ pending_operations' = r.st.pending
                /\ error_log' = r.st.log
                /\ delivered' = r.st.delivered
                /\ result' = [OkResult("store_conversation_history") EXCEPT !.conversation_id = id,
                                                                           !.memory_ids = r.memory_ids]
    /\ UNCHANGED <<now, breakerVars, serverVars, stamp, async_enabled, cache_size, running, worker_thread,
                   threads, last_call, summaries, auto_create_scope>>

\* the documents of a conversation
ConversationDocuments(conversation_id) ==
    {i \in DOMAIN conversation_history : conversation_history[i].conversation_id = conversation_id}

\* the orders in which find(query).sort("timestamp", 1) may hand out the
\* documents of a conversation: ascending timestamps, and documents with
\* equal timestamps in an order the store chooses
SortedByTimestamp(conversation_id) ==
    LET ids == ConversationDocuments(conversation_id)
        n == Cardinality(ids)
    IN  {order \in [1..n -> ids] :
            /\ \A i \in 1..n, j \in 1..n : i # j => order[i] # order[j]
            /\ \A i \in 1..n, j \in 1..n :
                   i < j => conversation_history[order[i]].timestamp <= conversation_history[order[j]].timestamp}

\* handle_get_conversation_history, with
\* MemoryService.get_conversation_history, of a request without limit and
\* offset; order is the order the cursor hands the documents out
handle_get_conversation_history(conversation_id, order) ==
    /\ pc = "idle"
    /\ ~last_call.pending
    /\ IF conversation_id = NoId
       THEN result' = [NoResult EXCEPT !.action = "get_conversation_history", !.status = "ERROR",
                                       !.error = "Missing required 'conversation_id' field"]
       ELSE /\ order \in SortedByTimestamp(conversation_id)
            /\ result' = [OkResult("get_conversation_history") EXCEPT
                              !.conversation_id = conversation_id,
                              !.messages = [i \in 1..Len(order) |->
                                               [text |-> conversation_history[order[i]].text,
                                                timestamp |-> conversation_history[order[i]].timestamp,
                                                memory_id |-> order[i],
                                                scope |-> conversation_history[order[i]].scope,
                                                tags |-> conversation_history[order[i]].tags]]]
    /\ UNCHANGED <<now, breakerVars, serverVars, embeddingVars, conversation_history, next_id, memory_index,
                   pending_operations, error_log, summaries, metadata_scopes, auto_create_scope, calls_made>>

\* the registered commands a and b are get_memory_stats and health_check
\* where their handlers are spelled out
StatsCommand == "a"
HealthCommand == "b"

\* one attempt of handle_get_memory_stats inside _execute_with_retry: the
\* counts are read from the store, and a store that fails makes
\* count_documents raise through the handler
handle_get_memory_stats(store_ok) ==
    /\ action = StatsCommand
    /\ IF store_ok THEN HandlerReturns("OK") ELSE HandlerRaises("e1")

\* the response of handle_health_check
HealthResponse(mongodb, embedding, memory_service) ==
    [status |-> IF "ERROR" \in {mongodb, embedding, memory_service} THEN "ERROR" ELSE "OK",
     error |-> "", detail |-> "", attempts |-> 0, retry_after |-> -1,
     components |-> [mongodb |-> mongodb, embedding |-> embedding, memory_service |-> memory_service]]

\* one attempt of handle_health_check inside _execute_with_retry: every
\* probe is caught, generate_embedding("test") returns the zero vector
\* instead of raising when the model fails, and the handler returns
handle_health_check(store_ok, model_ok) ==
    /\ pc = "exec"
    /\ action = HealthCommand
    /\ LET mongo_status == IF store_ok THEN "OK" ELSE "ERROR"
           e == generate_embedding_result("test", model_ok, embedding_cache)
           embedding_status == "OK"
           memory_status == IF store_ok THEN "OK" ELSE "ERROR"
       IN  /\ embedding_cache' = e.cache
           /\ response' = HealthResponse(mongo_status, embedding_status, memory_status)
    /\ record_success(action)
    /\ IF health_status = "degraded"
       THEN health_status' = "ok" /\ last_error' = None
       ELSE UNCHANGED <<health_status, last_error>>
    /\ pc' = "idle"
    /\ UNCHANGED <<now, request_count, error_count, action, attempts, err, repositoryVars,
                   stamp, async_enabled, cache_size, embedding_queue, embedding_callbacks, running,
                   worker_thread, threads, delivered, last_call>>

(* --------------------------- specifications --------------------------- *)
\* the breaker driven directly through its three methods
InitBreakerOnly ==
    /\ now = 0
    /\ \E th \in 1..MaxThreshold, to \in 1..MaxTimeout : InitBreaker(th, to)
    /\ InitServer
    /\ InitEmbedding(TRUE, MaxCacheSize)
    /\ InitRepository(FALSE)

RecordFailure(c) ==
    /\ failure_count[c] < MaxFailures
    /\ record_failure(c)
    /\ UNCHANGED <<now, serverVars, embeddingVars, repositoryVars>>

RecordSuccess(c) ==
    /\ record_success(c)
    /\ UNCHANGED <<now, serverVars, embeddingVars, repositoryVars>>

IsOpen(c) ==
    /\ is_open(c)
    /\ UNCHANGED <<now, serverVars, embeddingVars, repositoryVars>>

NextBreaker ==
    \/ \E c \in AllActions : RecordFailure(c)
    \/ \E c \in AllActions : RecordSuccess(c)
    \/ \E c \in AllActions : IsOpen(c)
    \/ Tick

SpecBreaker == InitBreakerOnly /\ [][NextBreaker]_vars

\* the dispatcher reading requests one after the other
NextServer ==
    \/ \E req \in Requests : process_request(req)
    \/ \E r \in HandlerResponses : HandlerReturns(r)
    \/ \E e \in Errors : HandlerRaises(e)
    \/ Tick

SpecServer == InitBreakerOnly /\ [][NextServer]_vars

\* the repository and the embedding service: the requests of one session
\* run one after the other, the embedding workers run beside them
Init ==
    /\ now = 0
    /\ InitBreaker(DefaultFailureThreshold, DefaultResetTimeout)
    /\ InitServer
    /\ \E async \in BOOLEAN : InitEmbedding(async, MaxCacheSize)
    /\ \E persisted \in BOOLEAN : InitRepository(persisted)

Next ==
    \/ \E text \in Texts, scope \in Scopes, ok \in BOOLEAN : store_conversation_memory(text, scope, ok)
    \/ \E i \in Ids, text \in Texts, scope \in Scopes, ok \in BOOLEAN : update_conversation_memory(i, text, scope, ok)
    \/ \E i \in Ids : delete_memory(i)
    \/ StartWorker
    \/ StopWorker
    \/ \E t \in DOMAIN threads : WorkerGet(t)
    \/ \E t \in DOMAIN threads, ok \in BOOLEAN : WorkerFinish(t, ok)
    \/ ClockAdvance

Spec == Init /\ [][Next]_vars

\* the embedding service under a direct caller, its workers beside it
GenerateEmbedding(text, budget) ==
    /\ calls_made < budget
    /\ generate_embedding(text)

RequestEmbedding(text, raises, ok, budget) ==
    /\ calls_made < budget
    /\ request_embedding(text, raises, ok)

ServiceSteps ==
    \/ \E ok \in BOOLEAN : generate_embedding_return(ok)
    \/ StartWorker
    \/ StopWorker
    \/ \E t \in DOMAIN threads : WorkerGet(t)
    \/ \E t \in DOMAIN threads, ok \in BOOLEAN : WorkerFinish(t, ok)
    \/ ClockAdvance

NextEmbedding ==
    \/ \E text \in ServiceTexts : GenerateEmbedding(text, MaxCalls)
    \/ \E text \in ServiceTexts, raises \in BOOLEAN, ok \in BOOLEAN :
            RequestEmbedding(text, raises, ok, MaxCalls)
    \/ ServiceSteps

InitEmbeddingOnly(sizes) ==
    /\ now = 0
    /\ InitBreaker(DefaultFailureThreshold, DefaultResetTimeout)
    /\ InitServer
    /\ \E async \in BOOLEAN, size \in sizes : InitEmbedding(async, size)
    /\ InitRepository(FALSE)

SpecEmbedding == InitEmbeddingOnly(1..MaxCacheSize) /\ [][NextEmbedding]_vars

\* longer sessions of a direct caller, with caches of up to one entry more
NextEmbeddingLong ==
    \/ \E text \in ServiceTexts : GenerateEmbedding(text, MaxGenerations)
    \/ \E text \in ServiceTexts, raises \in BOOLEAN, ok \in BOOLEAN :
            RequestEmbedding(text, raises, ok, MaxGenerations)
    \/ ServiceSteps

SpecEmbeddingLong == InitEmbeddingOnly(1..(MaxCacheSize + 1)) /\ [][NextEmbeddingLong]_vars

\* the command handlers under one client, the embedding workers beside them
CommandIds == 1..(3 + MaxCommands)
ScopeInputs == {None, "s2"}
Tags == {"t1"}
\* the targets of delete_memory requests: no criterion, one, several
Targets ==
    {[memory_id |-> i, scope |-> None, tag |-> None, query |-> None] : i \in {NoId, 1, 3}}
    \cup {[memory_id |-> NoId, scope |-> s, tag |-> "", query |-> ""] : s \in {"", default_scope, "s2"}}
    \cup {[memory_id |-> NoId, scope |-> None, tag |-> "t1", query |-> q] : q \in {None, "a"}}
    \cup {[memory_id |-> NoId, scope |-> None, tag |-> None, query |-> "a"]}
    \cup {[memory_id |-> i, scope |-> default_scope, tag |-> "t1", query |-> "a"] : i \in {NoId, 2}}

\* the store is empty, or holds two messages and a summary of an earlier
\* session with their index rows
InitStoreConfig(populated, auto_create) ==
    /\ now = IF populated THEN 2 ELSE 0
    /\ conversation_history =
           IF populated
           THEN (1 :> [text |-> "a", scope |-> default_scope, tags |-> {"t1"}, timestamp |-> 0,
                       conversation_id |-> uuid4(1)])
                @@ (2 :> [text |-> "ab", scope |-> default_scope, tags |-> {}, timestamp |-> 1,
                          conversation_id |-> uuid4(2)])
           ELSE <<>>
    /\ summaries = IF populated THEN (3 :> [summary_text |-> "ab", scope |-> default_scope]) ELSE <<>>
    /\ next_id = IF populated THEN 4 ELSE 1
    /\ memory_index =
           IF populated
           THEN <<[source_id |-> 1, source_collection |-> "conversation_history",
                   embedding |-> Encode("a"), scope |-> default_scope],
                  [source_id |-> 2, source_collection |-> "conversation_history",
                   embedding |-> Encode("ab"), scope |-> default_scope],
                  [source_id |-> 3, source_collection |-> "summaries",
                   embedding |-> Encode("ab"), scope |-> default_scope]>>
           ELSE <<>>
    /\ pending_operations = [i \in CommandIds |-> None]
    /\ error_log = {}
    /\ calls_made = 0
    /\ metadata_scopes = IF populated THEN <<default_scope>> ELSE <<>>
    /\ auto_create_scope = auto_create
    /\ result = NoResult

\* the worker thread of the embedding service under the command handlers
CommandThreads == {1}

\* the configuration default: auto_create_scope is on
InitStore(populated) == InitStoreConfig(populated, TRUE)

InitCommands(stores) ==
    /\ InitBreaker(DefaultFailureThreshold, DefaultResetTimeout)
    /\ InitServer
    /\ InitEmbeddingThreads(TRUE, MaxCacheSize, CommandThreads)
    /\ \E populated \in stores : InitStore(populated)

StoreMemory(content, scope, tags, ok) ==
    /\ calls_made < MaxCommands
    /\ handle_store_memory(content, scope, tags, ok)

StoreSummary(text, scope, ok) ==
    /\ calls_made < MaxCommands
    /\ store_summary(text, scope, ok)

DeleteMemory(memory_id, scope, tag, query) ==
    /\ calls_made < MaxCommands
    /\ handle_delete_memory(memory_id, scope, tag, query)

WorkerSteps ==
    \/ StartWorker
    \/ StopWorker
    \/ \E t \in DOMAIN threads : WorkerGet(t)
    \/ \E t \in DOMAIN threads, ok \in BOOLEAN : WorkerFinish(t, ok)
    \/ ClockAdvance

\* a client that stores and deletes
NextDelete ==
    \/ \E content \in {"", "a"}, scope \in ScopeInputs, tags \in SUBSET Tags, ok \in BOOLEAN :
            StoreMemory(content, scope, tags, ok)
    \/ \E ok \in BOOLEAN : StoreSummary("ab", "s2", ok)
    \/ \E target \in Targets :
            DeleteMemory(target.memory_id, target.scope, target.tag, target.query)
    \/ WorkerSteps

SpecDelete == InitCommands(BOOLEAN) /\ [][NextDelete]_vars

\* a client that starts with an empty store, stores, deletes by id and searches
NextRetrieve ==
    \/ \E ok \in BOOLEAN : StoreMemory("a", None, {"t1"}, ok)
    \/ \E i \in 1..MaxCommands : DeleteMemory(i, None, None, None)
    \/ \E query \in {"a", "ab"}, ok \in BOOLEAN : handle_retrieve_memory(query, None, {}, NoTimeRange, 5, ok)
    \/ \E query \in {None, "a"} : handle_search_by_tag("t1", query, TRUE)
    \/ \E query \in {None, "a"} : handle_search_by_scope(default_scope, query, TRUE)
    \/ WorkerSteps

SpecRetrieve == InitCommands({FALSE}) /\ [][NextRetrieve]_vars

\* a client that stores and searches, no worker running
Queries == {"", "a", "ab", "B"}
TopKs == {-1, 1, 5}

NextSearch ==
    \/ \E content \in {"a", "ab"}, ok \in BOOLEAN : StoreMemory(content, None, {}, ok)
    \/ \E query \in Queries, scope \in ScopeInputs, tags \in SUBSET Tags, top_k \in TopKs, ok \in BOOLEAN :
            handle_retrieve_memory(query, scope, tags, NoTimeRange, top_k, ok)
    \/ \E tag \in {""} \cup Tags, query \in {None, "a"}, ok \in BOOLEAN :
            handle_search_by_tag(tag, query, ok)
    \/ \E scope \in {"", default_scope, "s2"}, query \in {None, "a"}, ok \in BOOLEAN :
            handle_search_by_scope(scope, query, ok)

SpecSearch == InitCommands(BOOLEAN) /\ [][NextSearch]_vars

\* the embedding service with a thread to spare for a second worker
InitWorkers ==
    /\ now = 0
    /\ InitBreaker(DefaultFailureThreshold, DefaultResetTimeout)
    /\ InitServer
    /\ InitEmbeddingThreads(TRUE, MaxCacheSize, 1..(MaxThreads + 1))
    /\ InitRepository(FALSE)

SpecWorkers == InitWorkers /\ [][NextEmbedding]_vars

\* a client that stores a memory and deletes it more than once
DeleteAgain(memory_id) ==
    /\ calls_made < MaxCommands + 1
    /\ handle_delete_memory(memory_id, None, None, None)

NextDeleteAgain ==
    \/ \E tags \in SUBSET Tags, ok \in BOOLEAN : StoreMemory("a", None, tags, ok)
    \/ \E i \in 1..MaxCommands : DeleteAgain(i)
    \/ WorkerSteps

SpecDeleteAgain == InitCommands({FALSE}) /\ [][NextDeleteAgain]_vars

\* a client of a server configured with or without auto_create_scope that
\* stores messages and batches, updates, deletes and reads conversations
Batches ==
    {<<>>,
     <<[text |-> "a", timestamp |-> NoTimestamp]>>,
     <<[text |-> "a", timestamp |-> NoTimestamp], [text |-> "b", timestamp |-> NoTimestamp]>>,
     <<[text |-> "a", timestamp |-> 1], [text |-> "b", timestamp |-> 0]>>}
ConversationIds == {NoId, 1}

InitConversations ==
    /\ InitBreaker(DefaultFailureThreshold, DefaultResetTimeout)
    /\ InitServer
    /\ InitEmbeddingThreads(TRUE, MaxCacheSize, CommandThreads)
    /\ \E auto_create \in BOOLEAN : InitStoreConfig(FALSE, auto_create)

StoreConversationHistory(messages, conversation_id, scope, ok) ==
    /\ calls_made < MaxCommands
    /\ handle_store_conversation_history(messages, conversation_id, scope, ok)

UpdateMemory(memory_id, content, scope, ok) ==
    /\ calls_made < MaxCommands
    /\ update_memory(memory_id, content, scope, ok)

GetConversationHistory(conversation_id) ==
    \E order \in SortedByTimestamp(conversation_id) :
        handle_get_conversation_history(conversation_id, order)

\* a client that stores, updates and deletes, no worker running
NextScopes ==
    \/ \E scope \in ScopeInputs, ok \in BOOLEAN : StoreMemory("a", scope, {}, ok)
    \/ \E messages \in Batches, scope \in ScopeInputs :
            StoreConversationHistory(messages, NoId, scope, TRUE)
    \/ \E memory_id \in 1..MaxCommands, content \in {None, "b"}, scope \in {None, "", "s2"} :
            UpdateMemory(memory_id, content, scope, TRUE)
    \/ DeleteMemory(1, None, None, None)
    \/ DeleteMemory(NoId, "s2", None, None)

SpecScopes == InitConversations /\ [][NextScopes]_vars

\* a client that stores batches and reads conversations, no worker running
NextConversations ==
    \/ \E messages \in Batches, conversation_id \in ConversationIds, ok \in BOOLEAN :
            StoreConversationHistory(messages, conversation_id, None, ok)
    \/ \E conversation_id \in ConversationIds \cup {uuid4(1)} : GetConversationHistory(conversation_id)

SpecConversations == InitConversations /\ [][NextConversations]_vars

\* a client of a populated store that stores and retrieves with tags and
\* time ranges, no worker running
TimeRanges ==
    {NoTimeRange, TimeRangeNotObject}
    \cup {TimeRange(from, to) : from \in {IsoAbsent, IsoUnparsable, IsoNaive(1), IsoAware(1)},
                                to \in {IsoAbsent, IsoNaive(1), IsoAware(2)}}

NextTimeRange ==
    \/ \E tags \in SUBSET Tags : StoreMemory("a", None, tags, TRUE)
    \/ \E query \in {"a", "ab"}, tags \in SUBSET Tags, time_range \in TimeRanges, top_k \in {1, 5},
          ok \in BOOLEAN :
            handle_retrieve_memory(query, None, tags, time_range, top_k, ok)

SpecTimeRange == InitCommands({TRUE}) /\ [][NextTimeRange]_vars

\* a client of a populated store that moves memories to another scope and
\* retrieves by scope, the embedding worker beside it
NextMove ==
    \/ \E memory_id \in 1..MaxCommands, ok \in BOOLEAN : UpdateMemory(memory_id, None, "s2", ok)
    \/ \E scope \in ScopeInputs, ok \in BOOLEAN :
            handle_retrieve_memory("a", scope, {}, NoTimeRange, 5, ok)
    \/ WorkerSteps

SpecMove == InitCommands({TRUE}) /\ [][NextMove]_vars

\* the store holds n messages of an earlier session that contain the letter
\* a, with their index rows
InitCrowded(n) ==
    /\ now = IF n > 0 THEN 1 ELSE 0
    /\ conversation_history = [i \in 1..n |-> [text |-> "ab", scope |-> default_scope, tags |-> {},
                                               timestamp |-> 0, conversation_id |-> uuid4(i)]]
    /\ summaries = <<>>
    /\ next_id = n + 1
    /\ memory_index = [i \in 1..n |-> [source_id |-> i, source_collection |-> "conversation_history",
                                       embedding |-> Encode("ab"), scope |-> default_scope]]
    /\ pending_operations = [i \in 1..(n + MaxCommands) |-> None]
    /\ error_log = {}
    /\ calls_made = 0
    /\ metadata_scopes = IF n > 0 THEN <<default_scope>> ELSE <<>>
    /\ auto_create_scope = TRUE
    /\ result = NoResult

InitRoundTrip ==
    /\ InitBreaker(DefaultFailureThreshold, DefaultResetTimeout)
    /\ InitServer
    /\ InitEmbeddingThreads(TRUE, MaxCacheSize, CommandThreads)
    /\ \E n \in {0, DefaultTopK} : InitCrowded(n)

\* a client that stores a memory and retrieves it by its own text
NextRoundTrip ==
    \/ \E scope \in ScopeInputs, ok \in BOOLEAN : StoreMemory("a", scope, {}, ok)
    \/ \E scope \in ScopeInputs, ok \in BOOLEAN :
            handle_retrieve_memory("a", scope, {}, NoTimeRange, DefaultTopK, ok)
    \/ WorkerSteps

SpecRoundTrip == InitRoundTrip /\ [][NextRoundTrip]_vars

\* the dispatcher serving get_memory_stats and health_check while the store
\* and the embedding model work or fail
NextHealth ==
    \/ \E req \in {StatsCommand, HealthCommand} : process_request(req)
    \/ \E store_ok \in BOOLEAN : handle_get_memory_stats(store_ok)
    \/ \E store_ok \in BOOLEAN, model_ok \in BOOLEAN : handle_health_check(store_ok, model_ok)
    \/ Tick

SpecHealth == InitBreakerOnly /\ [][NextHealth]_vars

(* ------------------------------- claims ------------------------------- *)
\* this step is process_request reading a request for action c
RequestFor(c) == request_count' = request_count + 1 /\ action' = c

\* C6: in every reachable state of the breaker, the circuit of an action is
\* open if and only if its failure count has reached failure_threshold.
C6_OpenIffThreshold ==
    \A c \in AllActions : circuit_open[c] <=> failure_count[c] >= failure_threshold

\* a circuit that opened and went on counting failures
C6_Witness ==
    \E c \in AllActions : circuit_open[c] /\ failure_count[c] > failure_threshold

\* C7: a request for an action whose circuit is open, read no more than
\* reset_timeout after the action's last failure, is rejected with
\* "temporarily unavailable" and retry_after = reset_timeout, and
\* _execute_with_retry (hence the handler) is not entered.
C7_OpenCircuitRejects ==
    [][\A c \in AllActions :
        (RequestFor(c) /\ circuit_open[c] /\ now - last_failure_time[c] <= reset_timeout)
        => /\ response'.status = "error"
           /\ response'.error = "Service temporarily unavailable for action"
           /\ response'.detail = c
           /\ response'.retry_after = reset_timeout
           /\ pc' = "idle"]_vars

\* a request was rejected exactly reset_timeout after the last failure
C7_Witness ==
    /\ pc = "idle"
    /\ response.error = "Service temporarily unavailable for action"
    /\ circuit_open[action]
    /\ now - last_failure_time[action] = reset_timeout

\* C8: an open circuit stays open until a request for its action is read
\* more than reset_timeout after the last failure; that request finds the
\* circuit closed with failure_count = 0 and goes to the handler.
C8_ProbeAfterTimeoutCloses ==
    [][\A c \in AllActions :
        circuit_open[c] =>
            IF RequestFor(c) /\ now - last_failure_time[c] > reset_timeout
            THEN ~circuit_open'[c] /\ failure_count'[c] = 0 /\ pc' = "exec"
            ELSE circuit_open'[c]]_vars

\* with threshold 1 every failure opens the circuit, so a handler entered
\* after a failure was entered through the reset
C8_Witness ==
    /\ failure_threshold = 1
    /\ pc = "exec" /\ attempts = 0
    /\ last_failure_time[action] > 0
    /\ now - last_failure_time[action] > reset_timeout
    /\ failure_count[action] = 0 /\ ~circuit_open[action]

\* C9: after a request in which a handler attempt returned, the action's
\* failure count is 0, its circuit closed, health ok and last_error cleared.
C9_SuccessResets ==
    (pc = "idle" /\ response.status \in HandlerResponses)
    => /\ failure_count[action] = 0
       /\ ~circuit_open[action]
       /\ health_status = "ok"
       /\ last_error = None

\* a handler that returned on a retry, after an earlier request had failed
C9_Witness ==
    /\ pc = "idle" /\ response.status \in HandlerResponses
    /\ attempts > 0
    /\ last_failure_time[action] > 0

\* C10: attempts that raise leave the failure count alone until the last
\* one; the last one adds exactly 1 and leaves health degraded with
\* last_error the message of that last attempt's error.
C10_OneFailurePerRequest ==
    [][(pc = "exec" /\ attempts' = attempts + 1)
        => IF attempts' < max_retry_attempts
           THEN failure_count' = failure_count /\ pc' = "exec"
           ELSE /\ failure_count' = [failure_count EXCEPT ![action] = @ + 1]
                /\ health_status' = "degraded"
                /\ last_error' = err'
                /\ response'.detail = err'
                /\ pc' = "idle"]_vars

\* the second failed request in a row for one action, whose attempts did
\* not all raise the same error
C10_Witness ==
    /\ pc = "idle"
    /\ response.error = "Command failed after attempts"
    /\ response.attempts = max_retry_attempts
    /\ failure_count[action] = 2
    /\ health_status = "degraded"

(* ---------------------- claims on the memory index --------------------- *)
\* the callbacks registered for source_id sid and not yet invoked: the
\* embedding jobs of sid that are queued or being worked on
OutstandingJobs(sid) ==
    {j \in {<<r, k>> : r \in DOMAIN embedding_callbacks, k \in 1..(MaxCalls + 1)} :
        /\ j[2] <= Len(embedding_callbacks[j[1]])
        /\ embedding_callbacks[j[1]][j[2]].source_id = sid}

Settled(sid) == OutstandingJobs(sid) = {}

\* the rows of source_id sid
IndexRows(index, sid) == {index[i] : i \in RowsOf(index, sid)}

\* the update callbacks for sid among the callbacks a worker is about to invoke
UpdatesFor(cbs, sid) ==
    {k \in 1..Len(cbs) : cbs[k].source_id = sid /\ cbs[k].kind = "update"}

\* C1: memory_index never holds more than one row for a source_id; and an
\* update callback that runs for a source_id that has a row (in the call
\* itself, or in a worker) leaves exactly that one row, carrying the
\* callback's scope and the embedding it was given.
C1_OneRowPerSource ==
    /\ [](\A sid \in Ids : Cardinality(RowsOf(memory_index, sid)) <= 1)
    /\ [][\A sid \in Ids : RowsOf(memory_index, sid) # {} =>
            /\ \A text \in Texts, scope \in Scopes, ok \in BOOLEAN :
                  (update_conversation_memory(sid, text, scope, ok)
                   /\ embedding_callbacks' = embedding_callbacks)
                  => \E vec \in {Encode(text), ZeroVector} :
                        IndexRows(memory_index', sid)
                            = {[source_id |-> sid, source_collection |-> "conversation_history",
                                embedding |-> vec, scope |-> scope]}
            /\ \A t \in ThreadIds, ok \in BOOLEAN :
                  (WorkerFinish(t, ok)
                   /\ threads[t].request_id \in DOMAIN embedding_callbacks
                   /\ UpdatesFor(embedding_callbacks[threads[t].request_id], sid) # {})
                  => LET cbs == embedding_callbacks[threads[t].request_id]
                         last == CHOOSE k \in UpdatesFor(cbs, sid) :
                                     \A m \in UpdatesFor(cbs, sid) : m <= k
                     IN  IndexRows(memory_index', sid)
                            = {[source_id |-> sid, source_collection |-> "conversation_history",
                                embedding |-> IF ok THEN Encode(threads[t].text) ELSE ZeroVector,
                                scope |-> cbs[last].scope]}]_vars

\* a second insert for a source_id was refused, and the row that was there
\* first is the one in the index
C1_Witness ==
    \E sid \in Ids : sid \in error_log /\ Cardinality(RowsOf(memory_index, sid)) = 1

\* C2: once no embedding job of a stored memory is outstanding, its row
\* carries the scope and the embedding of the job issued last, which is the
\* job of the call that wrote the memory's present text and scope.
C2_LaterJobWins ==
    \A sid \in DOMAIN conversation_history :
        Settled(sid) =>
            \A row \in IndexRows(memory_index, sid) :
                /\ row.scope = conversation_history[sid].scope
                /\ row.embedding \in {Encode(conversation_history[sid].text), ZeroVector}

\* C3: no source_id has two embedding jobs outstanding.
C3_OneJobPerSource ==
    \A sid \in Ids : Cardinality(OutstandingJobs(sid)) <= 1

\* C4: a memory that was deleted and has no embedding job outstanding has
\* no row in memory_index.
C4_DeleteRemovesRow ==
    \A sid \in 1..(next_id - 1) :
        (sid \notin DOMAIN conversation_history /\ Settled(sid))
        => RowsOf(memory_index, sid) = {}

\* C5: a memory in the store whose embedding jobs have all settled has
\* exactly one row in memory_index, or none and an error logged for it.
C5_RowOrLoggedError ==
    \A sid \in DOMAIN conversation_history :
        Settled(sid) =>
            \/ Cardinality(RowsOf(memory_index, sid)) = 1
            \/ RowsOf(memory_index, sid) = {} /\ sid \in error_log

\* the one call of the session stored memory 2, its creation job went
\* through the queue and a worker, and the callback left one row
C5_Witness ==
    /\ calls_made = 1 /\ next_id = 3
    /\ 2 \in DOMAIN conversation_history
    /\ pending_operations[2] = None
    /\ Settled(2)
    /\ Cardinality(RowsOf(memory_index, 2)) = 1

(* ----------------------- claims on the dispatcher ---------------------- *)
\* C11: inside _execute_with_retry the handler has been invoked fewer than
\* max_retry_attempts times, so the next invocation is at least the first
\* and at most the max_retry_attempts-th; an attempt that returns ends the
\* request with the handler's response, an attempt that raises is followed
\* by another one unless it was the max_retry_attempts-th, and then the
\* request ends with the error "failed after" naming max_retry_attempts.
C11_BoundedAttempts ==
    /\ [](pc = "exec" => attempts \in 0..(max_retry_attempts - 1))
    /\ [][pc = "exec" =>
            \/ UNCHANGED <<pc, attempts, response>>    \* the handler is running
            \/ /\ attempts' = attempts
               /\ pc' = "idle"
               /\ response'.status \in HandlerResponses
            \/ /\ attempts' = attempts + 1
               /\ attempts' < max_retry_attempts
               /\ pc' = "exec"
               /\ response' = response
            \/ /\ attempts' = attempts + 1
               /\ attempts' = max_retry_attempts
               /\ pc' = "idle"
               /\ response'.status = "error"
               /\ response'.error = "Command failed after attempts"
               /\ response'.attempts = max_retry_attempts]_vars

\* the handler returned at the last attempt the loop allows
C11_Witness ==
    /\ pc = "idle"
    /\ response.status \in HandlerResponses
    /\ attempts = max_retry_attempts - 1

\* C12: a call of record_failure, record_success or is_open changes the
\* failure count, the open flag and the last failure time of one command at
\* most: the entries of every other command stay as they were, and with
\* them what is_open answers for it.
C12_CircuitsIndependent ==
    [][Cardinality({c \in AllActions :
            \/ failure_count'[c] # failure_count[c]
            \/ circuit_open'[c] # circuit_open[c]
            \/ last_failure_time'[c] # last_failure_time[c]}) <= 1]_vars

\* one circuit open and counting while another command has a failure on
\* record and a closed circuit
C12_Witness ==
    \E a \in AllActions, b \in AllActions :
        /\ a # b
        /\ circuit_open[a] /\ failure_count[a] >= failure_threshold
        /\ ~circuit_open[b] /\ failure_count[b] = 1
        /\ last_failure_time[a] # last_failure_time[b]

\* the requests that carry no action a handler is registered for
InvalidRequests == {"malformed", "not_object", "no_action"} \cup (AllActions \ command_handlers)

\* C13: a request that is not valid JSON, carries no action or names an
\* action without handler is answered with an error at once, without
\* entering _execute_with_retry, and leaves the breaker and health_status
\* as they were.
C13_InvalidRequestLeavesState ==
    [][\A req \in InvalidRequests :
        process_request(req)
        => /\ response'.status = "error"
           /\ pc' = "idle"
           /\ attempts' = attempts
           /\ now' = now
           /\ UNCHANGED breakerVars
           /\ health_status' = health_status]_vars

\* C14: every response that reports a failure has status "ERROR".
C14_ErrorEnvelope ==
    response.status \notin {"none", "OK"} => response.status = "ERROR"

(* -------------------- claims on the embedding service ------------------ *)
\* C15: the embedding cache never holds more than cache_size entries.
C15_CacheBounded == Len(embedding_cache) <= cache_size

\* the cache is full and a text whose embedding was generated and handed
\* to a callback is no longer in it
C15_Witness ==
    /\ Len(embedding_cache) = cache_size
    /\ \E i \in 1..Len(delivered) :
          /\ delivered[i].vec = Encode(delivered[i].text)
          /\ delivered[i].text \notin CacheKeys(embedding_cache)

\* C16: a text leaves the cache only in a step that puts a new text into a
\* full cache, and the text that leaves is the oldest of the dict; a call
\* for a cached text leaves that text last in the dict.
C16_ReferenceLRU ==
    [][/\ (CacheKeys(embedding_cache) \ CacheKeys(embedding_cache') # {}) =>
             /\ Len(embedding_cache) = cache_size
             /\ CacheKeys(embedding_cache') \ CacheKeys(embedding_cache) # {}
             /\ CacheKeys(embedding_cache) \ CacheKeys(embedding_cache') = {Head(embedding_cache).text}
       /\ \A t \in CacheKeys(embedding_cache) :
             (generate_embedding(t) \/ \E raises \in BOOLEAN, ok \in BOOLEAN : request_embedding(t, raises, ok))
             => embedding_cache'[Len(embedding_cache')].text = t]_vars

\* C17: the cache holds for a text the vector the model computed for it,
\* and generate_embedding for a cached text returns that vector at once,
\* without going to the model.
C17_CachedVectorReturned ==
    /\ [](\A i \in 1..Len(embedding_cache) : embedding_cache[i].vec = Encode(embedding_cache[i].text))
    /\ [][\A t \in CacheKeys(embedding_cache) :
            generate_embedding(t)
            => /\ last_call'.text = t
               /\ last_call'.result = Encode(t)
               /\ ~last_call'.model_used
               /\ ~last_call'.pending]_vars

\* the second call of a session was a generate_embedding answered from the
\* cache, the first one an asynchronous request that put the text there
C17_Witness ==
    /\ calls_made = 2
    /\ Len(delivered) = 1
    /\ ~last_call.pending /\ ~last_call.model_used
    /\ last_call.text # ""
    /\ last_call.text = delivered[1].text
    /\ last_call.result = delivered[1].vec

\* C18: a generate_embedding call that went to the model returns either the
\* zero vector with the cache as it was, or the model's vector with the
\* text cached; the zero vector is never cached, so the next call for the
\* text goes to the model again.
C18_FailureNotCached ==
    /\ [](\A i \in 1..Len(embedding_cache) : embedding_cache[i].vec # ZeroVector)
    /\ [][(last_call.pending /\ ~last_call'.pending) =>
            \/ /\ last_call'.result = ZeroVector
               /\ embedding_cache' = embedding_cache
            \/ /\ last_call'.result = Encode(last_call.text)
               /\ last_call.text \in CacheKeys(embedding_cache')]_vars

\* the second call of a session went to the model and failed: it returned
\* the zero vector and the cache holds the first call's text only
C18_Witness ==
    /\ calls_made = 2
    /\ ~last_call.pending /\ last_call.model_used
    /\ last_call.result = ZeroVector
    /\ Len(embedding_cache) = 1
    /\ embedding_cache[1].text # last_call.text

\* the invocations of the callback of the n-th call
Invocations(n) == {i \in 1..Len(delivered) : delivered[i].call = n}

\* the callback of the n-th call is registered for a queued request
Registered(n) ==
    \E r \in DOMAIN embedding_callbacks :
        \E k \in 1..Len(embedding_callbacks[r]) :
            /\ embedding_callbacks[r][k].kind = "client"
            /\ embedding_callbacks[r][k].call = n

\* C19: no callback is invoked twice; a generate_embedding_async call
\* returns with its callback invoked once or registered for the worker, and
\* a registered callback is invoked once when the worker takes it off the
\* table.
C19_CallbackExactlyOnce ==
    /\ [](\A n \in 1..MaxGenerations : Cardinality(Invocations(n)) <= 1)
    /\ [][/\ \A t \in ServiceTexts, raises \in BOOLEAN, ok \in BOOLEAN :
                request_embedding(t, raises, ok)
                => \E n \in 1..MaxGenerations :
                      /\ n = calls_made + 1
                      /\ \/ Registered(n)'
                         \/ Cardinality(Invocations(n)') = 1
          /\ \A n \in 1..MaxGenerations :
                (Registered(n) /\ ~Registered(n)') => Cardinality(Invocations(n)') = 1]_vars

Consuming ==
    {t \in DOMAIN threads : \/ threads[t].state = "idle"
                            \/ threads[t].state = "busy" /\ running}

\* C21: whatever start_worker and stop_worker calls were made, at most one
\* worker thread consumes the embedding queue; and start_worker called
\* while the worker thread is alive starts no thread.
C21_OneWorker ==
    /\ [](Cardinality(Consuming) <= 1)
    /\ [][(worker_thread # 0 /\ threads[worker_thread].state # "dead")
            => \A t \in DOMAIN threads : threads[t].state = "dead" => threads'[t].state = "dead"]_vars

(* --------------------- claims on the command handlers ------------------ *)
\* C22: a store_memory request whose content is the empty string succeeds
\* and creates the memory; its index row carries the zero vector, and the
\* cache and the queue are left as they were.
C22_EmptyTextStorable ==
    [][\A scope \in ScopeInputs, tags \in SUBSET Tags, ok \in BOOLEAN :
          StoreMemory("", scope, tags, ok)
          => /\ result'.status = "OK"
             /\ result'.memory_id \in DOMAIN conversation_history'
             /\ conversation_history'[result'.memory_id].text = ""
             /\ \E k \in 1..Len(memory_index') : /\ memory_index'[k].source_id = result'.memory_id
                                                  /\ memory_index'[k].embedding = ZeroVector
             /\ UNCHANGED <<embedding_cache, embedding_queue>>]_vars

\* the memories the highest criterion of a target selects, in the order
\* memory_id, scope, tag
Selected(target) ==
    IF target.memory_id # NoId
    THEN {i \in DOMAIN conversation_history : i = target.memory_id}
    ELSE IF Truthy(target.scope)
    THEN {i \in DOMAIN conversation_history : conversation_history[i].scope = target.scope}
    ELSE IF Truthy(target.tag)
    THEN {i \in DOMAIN conversation_history : target.tag \in conversation_history[i].tags}
    ELSE {}

\* the criteria a target supplies
Criteria(target) ==
    {c \in {"memory_id", "scope", "tag", "query"} :
        \/ c = "memory_id" /\ target.memory_id # NoId
        \/ c = "scope" /\ Truthy(target.scope)
        \/ c = "tag" /\ Truthy(target.tag)
        \/ c = "query" /\ Truthy(target.query)}

LexicalMatches(query) ==
    {i \in DOMAIN conversation_history : RegexMatches(query, conversation_history[i].text)}

\* C24: a delete_memory request with only a query deletes every memory the
\* query matches lexically, with its index row, and answers OK with the
\* number of memories deleted.
C24_DeleteByQuery ==
    [][DeleteMemory(NoId, None, None, "a")
          => /\ result'.status = "OK"
             /\ result'.deleted_count = Cardinality(LexicalMatches("a"))
             /\ DOMAIN conversation_history' = DOMAIN conversation_history \ LexicalMatches("a")
             /\ \A k \in 1..Len(memory_index') : memory_index'[k].source_id \notin LexicalMatches("a")]_vars

C26_DeleteIdempotent ==
    [][\A i \in 1..MaxCommands :
          DeleteAgain(i)
          => /\ result'.status = "OK"
             /\ result'.deleted_count = (IF i \in DOMAIN conversation_history THEN 1 ELSE 0)
             /\ i \notin DOMAIN conversation_history
                => UNCHANGED <<conversation_history, memory_index, summaries, metadata_scopes>>]_vars

\* the memories a step has deleted
DeletedByStep == DOMAIN conversation_history \ DOMAIN conversation_history'

\* C27: a delete by scope or by tag removes the matching messages and the
\* index rows of exactly these messages: no row of a deleted message
\* remains, and every other row (of a message that stays, of a summary) is
\* still there.
C27_MassDeleteRows ==
    [][\A target \in Targets :
          (target.memory_id = NoId /\ (Truthy(target.scope) \/ Truthy(target.tag))
           /\ DeleteMemory(target.memory_id, target.scope, target.tag, target.query))
          => /\ DeletedByStep = Selected(target)
             /\ memory_index' = SelectSeq(memory_index, LAMBDA row : row.source_id \notin Selected(target))]_vars

(* ------------------------- claims on retrieval ------------------------- *)
\* the ids of the memories that were stored and deleted
Deleted == (1..(next_id - 1)) \ (DOMAIN conversation_history \cup DOMAIN summaries)

\* the index rows whose memory was deleted
OrphanRows == {k \in 1..Len(memory_index) : memory_index[k].source_id \in Deleted}

\* C28: no result of retrieve_memory, search_by_tag or search_by_scope
\* carries the id of a deleted memory, whether or not an index row of that
\* memory is still there. A response is the last one until the next command
\* answers, and every command that stores or deletes answers.
C28_NoDeletedResult ==
    \A k \in 1..Len(result.results) : result.results[k].memory_id \notin Deleted

\* a retrieval by the text of a deleted memory while its row is in the index
C28_Witness ==
    /\ result.action = "retrieve_memory"
    /\ result.status = "OK"
    /\ \E k \in OrphanRows : memory_index[k].embedding \in {embedding_cache[c].vec : c \in 1..Len(embedding_cache)}

\* the entries of a results list are ordered by confidence, highest first
ScoreDescending(results) ==
    \A i \in 1..Len(results), j \in 1..Len(results) :
        i < j => results[i].confidence >= results[j].confidence

\* C29: the results of retrieve_memory through perform_hybrid_search hold
\* every document id at most once, a document the text search finds carries
\* the score 1.0, the list is in descending order of score, and it has at
\* most top_k entries (none for a top_k below one).
C29_HybridSearch ==
    [][\A query \in Queries \ {""}, scope \in ScopeInputs, top_k \in TopKs, ok \in BOOLEAN :
          handle_retrieve_memory(query, scope, {}, NoTimeRange, top_k, ok)
          => LET results == result'.results
                 search_scope == IF Truthy(scope) THEN scope ELSE default_scope
                 lexical == {i \in LexicalMatches(query) : conversation_history[i].scope = search_scope}
             IN  /\ \A i \in 1..Len(results), j \in 1..Len(results) :
                        i # j => results[i].memory_id # results[j].memory_id
                 /\ \A i \in 1..Len(results) :
                        results[i].memory_id \in lexical => results[i].confidence = 100
                 /\ ScoreDescending(results)
                 /\ Len(results) <= (IF top_k > 0 THEN top_k ELSE 0)]_vars

\* C30: the results of retrieve_memory are in descending order of score,
\* entries of equal score in descending order of timestamp, and entries of
\* equal score and timestamp in ascending order of id.
C30_TieBreak ==
    [][\A query \in Queries \ {""}, scope \in ScopeInputs, top_k \in TopKs, ok \in BOOLEAN :
          handle_retrieve_memory(query, scope, {}, NoTimeRange, top_k, ok)
          => LET results == result'.results
                 ts(i) == conversation_history[results[i].memory_id].timestamp
             IN  \A i \in 1..Len(results), j \in 1..Len(results) :
                    i < j => \/ results[i].confidence > results[j].confidence
                             \/ /\ results[i].confidence = results[j].confidence
                                /\ \/ ts(i) > ts(j)
                                   \/ ts(i) = ts(j) /\ results[i].memory_id < results[j].memory_id]_vars

(* ------------------- claims on the pending operations ------------------ *)
\* C38: a source_id whose embedding jobs have all run their callback, on
\* the worker or inside generate_embedding_async itself, has no entry in
\* pending_operations.
C38_PendingDrained ==
    \A sid \in DOMAIN pending_operations :
        Settled(sid) => pending_operations[sid] = None

\* C40: the callbacks of queued requests are invoked in the order in which
\* the requests were queued, each with the vector of its own text: when the
\* worker invokes the callback of a call, no earlier call is still waiting
\* in the callback table.
C40_QueueFifo ==
    [][(calls_made' = calls_made /\ Len(delivered') > Len(delivered))
          => \A i \in (Len(delivered) + 1)..Len(delivered') :
                /\ delivered'[i].vec \in {Encode(delivered'[i].text), ZeroVector}
                /\ \A n \in 1..MaxGenerations : Registered(n)' => n > delivered'[i].call]_vars

(* ------------------- claims on the breaker and errors ------------------ *)
\* C39: a handler that returns a response with an error status is not
\* called again for the request, its action's failure count does not grow
\* and the health status is not degraded by it; a failure count grows only
\* by one and only in the attempt that exhausts the retries of a request by
\* raising, every returned response sets it back to zero, and a circuit
\* opens only in such an attempt and with the count at the threshold.
C39_OnlyRaisedErrorsCount ==
    [][/\ (pc = "exec" /\ pc' = "idle" /\ attempts' = attempts)
          => /\ response' \in {HandlerResponse(r) : r \in HandlerResponses}
             /\ failure_count'[action] = 0
             /\ ~circuit_open'[action]
             /\ health_status' = "ok"
       /\ \A c \in AllActions :
             failure_count'[c] > failure_count[c]
             => /\ pc = "exec" /\ pc' = "idle" /\ c = action
                /\ attempts' = max_retry_attempts
                /\ failure_count'[c] = failure_count[c] + 1
       /\ \A c \in AllActions :
             (circuit_open'[c] /\ ~circuit_open[c])
             => /\ failure_count'[c] > failure_count[c]
                /\ failure_count'[c] >= failure_threshold]_vars

\* a handler has answered with an error status after an earlier request had
\* exhausted its retries: nothing is counted against the action
C39_Witness ==
    /\ pc = "idle"
    /\ response = HandlerResponse("ERROR")
    /\ action \in command_handlers
    /\ error_count >= 1
    /\ failure_count[action] = 0
    /\ health_status = "ok"

\* C37: every get_memory_stats and health_check request is answered with a
\* success status, whether the store and the embedding model work or not,
\* and the circuits of the two commands never open.
C37_StatsAndHealthSucceed ==
    /\ ~circuit_open[StatsCommand]
    /\ ~circuit_open[HealthCommand]
    /\ (pc = "idle" /\ action \in {StatsCommand, HealthCommand}) => response.status = "OK"

\* C35: with auto_create_scope disabled, a store_memory or
\* store_conversation_history that names a scope no Scope document exists
\* for fails, and writes no message, no scope and no index row
C35_UnknownScopeFails ==
    [][\A scope \in ScopeInputs :
          (/\ ~auto_create_scope
           /\ ~get_scope(IF Truthy(scope) THEN scope ELSE default_scope)
           /\ \/ \E ok \in BOOLEAN : StoreMemory("a", scope, {}, ok)
              \/ \E messages \in Batches \ {<<>>} : StoreConversationHistory(messages, NoId, scope, TRUE))
          => /\ result'.status # "OK"
             /\ UNCHANGED <<conversation_history, metadata_scopes, memory_index>>]_vars

C33_BatchOrderKept ==
    [][(/\ result.action = "store_conversation_history"
        /\ result.status = "OK"
        /\ ConversationDocuments(result.conversation_id)
               = {result.memory_ids[k] : k \in 1..Len(result.memory_ids)}
        /\ GetConversationHistory(result.conversation_id))
          => /\ result'.status = "OK"
             /\ [i \in 1..Len(result'.messages) |-> result'.messages[i].memory_id] = result.memory_ids]_vars
\* C32: retrieve_memory answers OK with the hybrid-search list of top_k, in
\* its order, restricted to the memories that carry every requested tag and,
\* when the time_range parses, whose timestamp lies within from and to; a
\* time_range that does not parse restricts nothing
C32_RetrieveFilters ==
    [][\A query \in {"a", "ab"}, tags \in SUBSET Tags, time_range \in TimeRanges, top_k \in {1, 5},
          ok \in BOOLEAN :
          handle_retrieve_memory(query, None, tags, time_range, top_k, ok)
          => LET e == generate_embedding_result(query, ok, embedding_cache)
                 hybrid == perform_hybrid_search(e.vec, query, default_scope, top_k, SimilarityThreshold)
                 from_time == IF time_range.from.kind = "absent" THEN MinDatetime ELSE time_range.from
                 to_time == IF time_range.to.kind = "absent" THEN MaxDatetime ELSE time_range.to
                 parsable == /\ time_range.kind = "object"
                             /\ from_time.kind # "unparsable"
                             /\ to_time.kind # "unparsable"
                 expected == SelectSeq(hybrid,
                                 LAMBDA m : /\ tags \subseteq conversation_history[m.memory_id].tags
                                            /\ parsable =>
                                                  /\ from_time.instant
                                                         <= conversation_history[m.memory_id].timestamp
                                                  /\ conversation_history[m.memory_id].timestamp
                                                         <= to_time.instant)
             IN  /\ result'.status = "OK"
                 /\ result'.results = [i \in 1..Len(expected) |->
                                          [memory_id |-> expected[i].memory_id,
                                           confidence |-> expected[i].score]]]_vars
\* C31: every result of retrieve_memory with a scope is a memory whose
\* scope in the store is that scope
C31_ScopeIsolation ==
    [][\A scope \in ScopeInputs, ok \in BOOLEAN :
          handle_retrieve_memory("a", scope, {}, NoTimeRange, 5, ok)
          => \A i \in 1..Len(result'.results) :
                conversation_history[result'.results[i].memory_id].scope
                    = IF Truthy(scope) THEN scope ELSE default_scope]_vars
\* C34: retrieve_memory with the text and the scope of a stored memory and
\* the default top_k returns the memory, with confidence 1.0 or at least the
\* similarity threshold
C34_RoundTrip ==
    [][\A scope \in ScopeInputs, ok \in BOOLEAN :
          handle_retrieve_memory("a", scope, {}, NoTimeRange, DefaultTopK, ok)
          => \A m \in DOMAIN conversation_history :
                (/\ conversation_history[m].text = "a"
                 /\ conversation_history[m].scope = IF Truthy(scope) THEN scope ELSE default_scope)
                => \E i \in 1..Len(result'.results) :
                      /\ result'.results[i].memory_id = m
                      /\ result'.results[i].confidence >= SimilarityThreshold]_vars
====
